---- MODULE Spec2Model ----
(***************************************************************************)
(* Hospital staff skill-assessment application (pages/index.tsx):          *)
(* the HomePage component's state, its data fetch, its mutation handlers,  *)
(* its login resolver and its navigation, with the remote store and the    *)
(* blob storage it talks to.                                               *)
(***************************************************************************)
EXTENDS Integers, Sequences, FiniteSets, TLC

VARIABLES
    hospitals,            \* useState<Hospital[]>: the in-memory tree
    isDataLoaded,         \* useState(false)
    appScreen,            \* useState<AppScreen>
    currentView,          \* useState<View>
    selectedHospitalId,   \* useState<string | null>
    selectedDepartmentId, \* useState<string | null>
    selectedStaffId,      \* useState<string | null>
    isLoginModalOpen,     \* useState(false)
    loginError,           \* useState<string | null>
    loggedInUser,         \* useState<LoggedInUser | null>
    initializationError,  \* useState<string | null>
    supabase,             \* module-level client: the values it was built from
    db,                   \* the remote store's tables
    blobs,                \* the blob storage: the set of stored object urls
    clock,                \* Date.now(), the source of client-generated ids
    fetches,              \* fetchData requests in flight, in issue order
    tasks,                \* mutation handlers suspended at an await
    downloads,            \* the backup files handleSaveData has written
    banners,              \* NewsCarousel: the banners prop, by banner id
    currentIndex,         \* NewsCarousel: useState(0)
    isLoading,            \* NewsCarousel: useState(true)
    ev                    \* what the last step did (handler, outcome, alert, resync)

navVars == <<appScreen, currentView, selectedHospitalId, selectedDepartmentId,
             selectedStaffId, loggedInUser>>
modalVars == <<isLoginModalOpen, loginError>>
remoteVars == <<db, blobs, clock>>
vars == <<hospitals, isDataLoaded, appScreen, currentView, selectedHospitalId,
          selectedDepartmentId, selectedStaffId, isLoginModalOpen, loginError,
          loggedInUser, initializationError, supabase, db, blobs, clock,
          fetches, tasks, downloads, banners, currentIndex, isLoading, ev>>
carouselVars == <<banners, currentIndex, isLoading>>
\* the state of a NewsCarousel that no page has mounted with banners
CarouselBeforeMount ==
    /\ banners = <<>>
    /\ currentIndex = 0
    /\ isLoading = TRUE

(***************************************************************************)
(* Bounds of the model.                                                    *)
(***************************************************************************)
MaxPrincipals == 4   \* credentialed rows other sessions put in the store
MaxClock == 2        \* handler calls in one run: the clock ticks at each call
MaxMaterials == 4    \* rows of training_materials other sessions inserted
MaxDownloads == 1    \* backup files written in one run
MaxBanners == 3      \* banners a hospital has at a time
MaxIndex == 4        \* the timer stops advancing an index that reached it

(***************************************************************************)
(* Values.                                                                 *)
(***************************************************************************)
NoId == 0                \* a null id (no row has it)
Null == "null"           \* a null string state
NoUser == [role |-> "None", hospitalId |-> NoId, departmentId |-> NoId,
           staffId |-> NoId, patientId |-> NoId]
Idle == [op |-> "none"]

AdminNationalId == "5850008985"
AdminPassword == "64546"
RequiredMessage == "national id and password are required"
InvalidMessage == "national id or password is invalid"
FetchErrorMessage == "error loading data from the database"

(***************************************************************************)
(* The client. NEXT_PUBLIC_SUPABASE_URL and NEXT_PUBLIC_SUPABASE_ANON_KEY  *)
(* are each set or absent; createClient falls back to placeholder values,  *)
(* so it never throws and the catch of the module initialisation is never  *)
(* taken.                                                                  *)
(***************************************************************************)
Absent == ""
Envs == [url : {Absent, "project url"}, key : {Absent, "anon key"}]
ConfiguredEnv == [url |-> "project url", key |-> "anon key"]
PlaceholderUrl == "https://example.supabase.co"
PlaceholderKey == "your-anon-key"
NoClient == [url |-> Absent, key |-> Absent]    \* supabase = null
createClient(env) ==
    [url |-> IF env.url # Absent THEN env.url ELSE PlaceholderUrl,
     key |-> IF env.key # Absent THEN env.key ELSE PlaceholderKey]
UsesPlaceholder(client) ==
    client.url = PlaceholderUrl \/ client.key = PlaceholderKey

\* Credentials the rows of the store carry, and the pairs a user submits.
StoredCredentials ==
    { <<"123", "pw">>, <<AdminNationalId, AdminPassword>> }
SubmittedCredentials ==
    StoredCredentials \cup { <<"123", "wrong">>, <<"", "pw">>, <<"123", "">> }

(***************************************************************************)
(* Sequence helpers (Array.prototype.map / filter / find).                 *)
(***************************************************************************)
Map(s, F(_)) == [i \in 1..Len(s) |-> F(s[i])]
Filter(s, T(_)) == SelectSeq(s, T)
FirstIndex(s, T(_)) ==
    IF \E i \in 1..Len(s) : T(s[i])
    THEN CHOOSE i \in 1..Len(s) : T(s[i]) /\ \A j \in 1..(i - 1) : ~T(s[j])
    ELSE 0
Remove(s, i) == [j \in 1..(Len(s) - 1) |-> IF j < i THEN s[j] ELSE s[j + 1]]
\* `x.f || []`: an absent child collection reads as the empty list
OrEmpty(r, f) == IF f \in DOMAIN r THEN r[f] ELSE <<>>

(***************************************************************************)
(* The remote store: one sequence of rows per table, in insertion order.   *)
(* Rows keep the columns the handlers read or compare; the display-only    *)
(* columns (name, title, province, city, mime type) are left out.          *)
(***************************************************************************)
EmptyDb == [hospitals |-> <<>>, departments |-> <<>>, staff_members |-> <<>>,
            patients |-> <<>>, training_materials |-> <<>>, news_banners |-> <<>>]

\* The nested read of fetchData: every hospital row with its embedded children.
MaterialColumns(m) ==
    [id |-> m.id, description |-> m.description, file_path |-> m.file_path,
     material_type |-> m.material_type]
SelectStaff(d, departmentId) ==
    Map(Filter(d.staff_members, LAMBDA s : s.department_id = departmentId),
        LAMBDA s : [id |-> s.id, department_id |-> s.department_id,
                    national_id |-> s.national_id, password |-> s.password,
                    assessments |-> <<>>, work_logs |-> <<>>])
SelectPatients(d, departmentId) ==
    Filter(d.patients, LAMBDA p : p.department_id = departmentId)
SelectDepartments(d, hospitalId) ==
    Map(Filter(d.departments, LAMBDA r : r.hospital_id = hospitalId),
        LAMBDA r : [id |-> r.id,
                    manager_national_id |-> r.manager_national_id,
                    manager_password |-> r.manager_password,
                    staff |-> SelectStaff(d, r.id),
                    patients |-> SelectPatients(d, r.id),
                    patient_education_materials |->
                        Map(Filter(d.training_materials,
                                   LAMBDA m : m.department_id = r.id),
                            MaterialColumns)])
Select(d) ==
    Map(d.hospitals,
        LAMBDA h : [id |-> h.id,
                    name |-> h.name,
                    supervisor_national_id |-> h.supervisor_national_id,
                    supervisor_password |-> h.supervisor_password,
                    departments |-> SelectDepartments(d, h.id),
                    checklist_templates |-> <<>>,
                    exam_templates |-> <<>>,
                    training_materials |->
                        Filter(d.training_materials,
                               LAMBDA m : m.hospital_id = h.id),
                    accreditation_materials |->
                        Map(Filter(d.training_materials,
                                   LAMBDA m : m.hospital_id = h.id),
                            MaterialColumns),
                    news_banners |->
                        Filter(d.news_banners, LAMBDA b : b.hospital_id = h.id),
                    admin_messages |-> h.admin_messages])

(***************************************************************************)
(* fetchData's transformation of the rows into the camelCase tree.         *)
(***************************************************************************)
TransformMaterial(m) ==
    [id |-> m.id, filePath |-> m.file_path, description |-> m.description]

\* mutant: a key for every row that has a month, repeated months included
MonthsOfRows(ms) ==
    Map(Filter(ms, LAMBDA m : m.month # ""), LAMBDA m : m.month)
\* materialsByMonth: a Map keeps its keys in first-insertion order
RECURSIVE MonthsOf(_)
MonthsOf(ms) ==
    IF ms = <<>> THEN <<>>
    ELSE LET rest == MonthsOf(SubSeq(ms, 1, Len(ms) - 1))
             m == ms[Len(ms)]
         IN  IF m.month = "" \/ \E i \in 1..Len(rest) : rest[i] = m.month
             THEN rest
             ELSE Append(rest, m.month)
MaterialsByMonth(ms) ==
    Map(MonthsOf(ms),
        LAMBDA month :
            [month |-> month,
             materials |-> Map(Filter(ms, LAMBDA m : m.month = month),
                               TransformMaterial)])

TransformStaff(s) ==
    [id |-> s.id, nationalId |-> s.national_id, password |-> s.password,
     assessments |-> OrEmpty(s, "assessments"),
     workLogs |-> OrEmpty(s, "work_logs")]
\* mutant: chatHistory is copied as it is, absent when the row has none
TransformPatientAsIs(p) ==
    [f \in {"id", "nationalId", "password"} \cup
            (IF "chat_history" \in DOMAIN p THEN {"chatHistory"} ELSE {}) |->
        CASE f = "id" -> p.id
          [] f = "nationalId" -> p.national_id
          [] f = "password" -> p.password
          [] OTHER -> p.chat_history]
TransformPatient(p) ==
    [id |-> p.id, nationalId |-> p.national_id, password |-> p.password,
     chatHistory |-> OrEmpty(p, "chat_history")]
TransformDepartment(d) ==
    [id |-> d.id,
     managerNationalId |-> d.manager_national_id,
     managerPassword |-> d.manager_password,
     staff |-> Map(OrEmpty(d, "staff"), TransformStaff),
     patientEducationMaterials |->
         Map(OrEmpty(d, "patient_education_materials"), TransformMaterial),
     patients |-> Map(OrEmpty(d, "patients"), TransformPatient)]
TransformHospital(h) ==
    [id |-> h.id,
     name |-> h.name,
     supervisorNationalId |-> h.supervisor_national_id,
     supervisorPassword |-> h.supervisor_password,
     departments |-> Map(OrEmpty(h, "departments"), TransformDepartment),
     checklistTemplates |-> OrEmpty(h, "checklist_templates"),
     examTemplates |-> OrEmpty(h, "exam_templates"),
     trainingMaterials |-> MaterialsByMonth(OrEmpty(h, "training_materials")),
     accreditationMaterials |->
         Map(OrEmpty(h, "accreditation_materials"), TransformMaterial),
     newsBanners |-> Map(OrEmpty(h, "news_banners"),
                         LAMBDA b : [id |-> b.id, description |-> b.description,
                                     imagePath |-> b.image_path]),
     adminMessages |-> OrEmpty(h, "admin_messages")]
Transform(rows) == Map(rows, TransformHospital)

(***************************************************************************)
(* Lookups over the in-memory tree (0: not found).                         *)
(***************************************************************************)
findHospital(tree, hospitalId) ==
    FirstIndex(tree, LAMBDA h : h.id = hospitalId)
findDepartment(hospital, departmentId) ==
    FirstIndex(hospital.departments, LAMBDA d : d.id = departmentId)
findStaffMember(department, staffId) ==
    FirstIndex(department.staff, LAMBDA s : s.id = staffId)
findPatient(department, patientId) ==
    FirstIndex(OrEmpty(department, "patients"), LAMBDA p : p.id = patientId)

(***************************************************************************)
(* The navigation and login state as one record, so that a handler that    *)
(* calls other handlers composes their updates.                            *)
(***************************************************************************)
Ui == [appScreen |-> appScreen, currentView |-> currentView,
       selectedHospitalId |-> selectedHospitalId,
       selectedDepartmentId |-> selectedDepartmentId,
       selectedStaffId |-> selectedStaffId,
       loggedInUser |-> loggedInUser,
       isLoginModalOpen |-> isLoginModalOpen,
       loginError |-> loginError]
SetUi(u) ==
    /\ appScreen' = u.appScreen
    /\ currentView' = u.currentView
    /\ selectedHospitalId' = u.selectedHospitalId
    /\ selectedDepartmentId' = u.selectedDepartmentId
    /\ selectedStaffId' = u.selectedStaffId
    /\ loggedInUser' = u.loggedInUser
    /\ isLoginModalOpen' = u.isLoginModalOpen
    /\ loginError' = u.loginError

goToWelcome(u) ==
    [u EXCEPT !.appScreen = "Welcome", !.selectedHospitalId = NoId,
              !.selectedDepartmentId = NoId, !.selectedStaffId = NoId,
              !.currentView = "DepartmentList", !.loggedInUser = NoUser]
selectHospital(u, id) ==
    [u EXCEPT !.selectedHospitalId = id, !.appScreen = "MainApp",
              !.currentView = "DepartmentList"]
\* mutant: the department is selected but the view is not switched
selectDepartmentKeepView(u, id) ==
    [u EXCEPT !.selectedDepartmentId = id]
selectDepartment(u, id) ==
    [u EXCEPT !.selectedDepartmentId = id, !.currentView = "DepartmentView"]
selectStaff(u, id) ==
    [u EXCEPT !.selectedStaffId = id, !.currentView = "StaffMemberView"]
\* mutant: the user is cleared but the screen is left where it was
logoutKeepScreen(u) ==
    [u EXCEPT !.loggedInUser = NoUser, !.selectedHospitalId = NoId,
              !.selectedDepartmentId = NoId, !.selectedStaffId = NoId,
              !.currentView = "DepartmentList"]
logout(u) ==
    [u EXCEPT !.loggedInUser = NoUser, !.selectedHospitalId = NoId,
              !.selectedDepartmentId = NoId, !.selectedStaffId = NoId,
              !.currentView = "DepartmentList", !.appScreen = "Welcome"]
back(u) ==
    CASE u.currentView = "StaffMemberView" ->
            [u EXCEPT !.selectedStaffId = NoId, !.currentView = "DepartmentView"]
      [] u.currentView \in {"DepartmentView", "ChecklistManager", "ExamManager",
                            "TrainingManager", "AccreditationManager",
                            "NewsBannerManager", "PatientEducationManager",
                            "HospitalCommunication"} ->
            [u EXCEPT !.selectedDepartmentId = NoId,
                      !.currentView = "DepartmentList"]
      [] u.currentView = "AdminCommunication" ->
            [u EXCEPT !.currentView = "DepartmentList"]
      [] u.currentView = "DepartmentList" ->
            [u EXCEPT !.selectedHospitalId = NoId, !.appScreen = "HospitalList"]
      [] OTHER -> u

(***************************************************************************)
(* handleLogin: the credential search, loop by loop.                       *)
(***************************************************************************)
NoMatch == [role |-> "None"]

\* mutant: a staff member is matched on the national id alone
loginStaffByIdOnly(u, hospital, department, nationalId, password) ==
    LET i == FirstIndex(department.staff, LAMBDA s : s.nationalId = nationalId)
    IN  IF i = 0 THEN NoMatch
        ELSE LET staff == department.staff[i]
                 user == [role |-> "Staff", hospitalId |-> hospital.id,
                          departmentId |-> department.id, staffId |-> staff.id,
                          patientId |-> NoId]
             IN  [role |-> "Staff",
                  ui |-> [selectStaff(selectDepartment(selectHospital(
                              [u EXCEPT !.loggedInUser = user], hospital.id),
                              department.id), staff.id)
                          EXCEPT !.isLoginModalOpen = FALSE]]
loginStaff(u, hospital, department, nationalId, password) ==
    LET i == FirstIndex(department.staff,
                        LAMBDA s : s.nationalId = nationalId
                                   /\ s.password = password)
    IN  IF i = 0 THEN NoMatch
        ELSE LET staff == department.staff[i]
                 user == [role |-> "Staff", hospitalId |-> hospital.id,
                          departmentId |-> department.id, staffId |-> staff.id,
                          patientId |-> NoId]
             IN  [role |-> "Staff",
                  ui |-> [selectStaff(selectDepartment(selectHospital(
                              [u EXCEPT !.loggedInUser = user], hospital.id),
                              department.id), staff.id)
                          EXCEPT !.isLoginModalOpen = FALSE]]
loginPatient(u, hospital, department, nationalId, password) ==
    LET patients == OrEmpty(department, "patients")
        i == FirstIndex(patients,
                        LAMBDA p : p.nationalId = nationalId
                                   /\ p.password = password)
    IN  IF i = 0 THEN NoMatch
        ELSE LET user == [role |-> "Patient", hospitalId |-> hospital.id,
                          departmentId |-> department.id, staffId |-> NoId,
                          patientId |-> patients[i].id]
             IN  [role |-> "Patient",
                  ui |-> [u EXCEPT !.loggedInUser = user,
                                   !.appScreen = "MainApp",
                                   !.currentView = "PatientPortal",
                                   !.isLoginModalOpen = FALSE]]
\* mutant: the patients of a department are searched before its staff
loginDepartmentPatientsFirst(u, hospital, department, nationalId, password) ==
    IF department.managerNationalId = nationalId
       /\ department.managerPassword = password
    THEN LET user == [role |-> "Manager", hospitalId |-> hospital.id,
                      departmentId |-> department.id, staffId |-> NoId,
                      patientId |-> NoId]
         IN  [role |-> "Manager",
              ui |-> [selectDepartment(selectHospital(
                          [u EXCEPT !.loggedInUser = user], hospital.id),
                          department.id)
                      EXCEPT !.isLoginModalOpen = FALSE]]
    ELSE LET s == loginPatient(u, hospital, department, nationalId, password)
         IN  IF s.role # "None" THEN s
             ELSE loginStaff(u, hospital, department, nationalId, password)
loginDepartment(u, hospital, department, nationalId, password) ==
    IF department.managerNationalId = nationalId
       /\ department.managerPassword = password
    THEN LET user == [role |-> "Manager", hospitalId |-> hospital.id,
                      departmentId |-> department.id, staffId |-> NoId,
                      patientId |-> NoId]
         IN  [role |-> "Manager",
              ui |-> [selectDepartment(selectHospital(
                          [u EXCEPT !.loggedInUser = user], hospital.id),
                          department.id)
                      EXCEPT !.isLoginModalOpen = FALSE]]
    ELSE LET s == loginStaff(u, hospital, department, nationalId, password)
         IN  IF s.role # "None" THEN s
             ELSE loginPatient(u, hospital, department, nationalId, password)

RECURSIVE loginDepartments(_, _, _, _, _)
loginDepartments(u, hospital, i, nationalId, password) ==
    IF i > Len(hospital.departments) THEN NoMatch
    ELSE LET r == loginDepartment(u, hospital, hospital.departments[i],
                                  nationalId, password)
         IN  IF r.role # "None" THEN r
             ELSE loginDepartments(u, hospital, i + 1, nationalId, password)

\* mutant: the departments of a hospital are searched before its supervisor
loginHospitalDepartmentsFirst(u, hospital, nationalId, password) ==
    LET r == loginDepartments(u, hospital, 1, nationalId, password)
    IN  IF r.role # "None" THEN r
        ELSE IF hospital.supervisorNationalId = nationalId
                /\ hospital.supervisorPassword = password
        THEN LET user == [role |-> "Supervisor", hospitalId |-> hospital.id,
                          departmentId |-> NoId, staffId |-> NoId,
                          patientId |-> NoId]
             IN  [role |-> "Supervisor",
                  ui |-> [selectHospital([u EXCEPT !.loggedInUser = user],
                                         hospital.id)
                          EXCEPT !.isLoginModalOpen = FALSE]]
        ELSE NoMatch
loginHospital(u, hospital, nationalId, password) ==
    IF hospital.supervisorNationalId = nationalId
       /\ hospital.supervisorPassword = password
    THEN LET user == [role |-> "Supervisor", hospitalId |-> hospital.id,
                      departmentId |-> NoId, staffId |-> NoId,
                      patientId |-> NoId]
         IN  [role |-> "Supervisor",
              ui |-> [selectHospital([u EXCEPT !.loggedInUser = user],
                                     hospital.id)
                      EXCEPT !.isLoginModalOpen = FALSE]]
    ELSE loginDepartments(u, hospital, 1, nationalId, password)

RECURSIVE loginHospitals(_, _, _, _, _)
loginHospitals(u, tree, i, nationalId, password) ==
    IF i > Len(tree) THEN NoMatch
    ELSE LET r == loginHospital(u, tree[i], nationalId, password)
         IN  IF r.role # "None" THEN r
             ELSE loginHospitals(u, tree, i + 1, nationalId, password)

loginAdmin(u) ==
    [u EXCEPT !.loggedInUser = [NoUser EXCEPT !.role = "Admin"],
              !.isLoginModalOpen = FALSE,
              !.appScreen = IF u.appScreen = "Welcome" THEN "HospitalList"
                            ELSE u.appScreen]

\* the state handleLogin leaves, from the state u it was called in
login(u, tree, nationalId, password) ==
    LET cleared == [u EXCEPT !.loginError = Null]
    IN  IF nationalId = "" \/ password = ""
        THEN [cleared EXCEPT !.loginError = RequiredMessage]
        ELSE IF nationalId = AdminNationalId /\ password = AdminPassword
        THEN loginAdmin(cleared)
        ELSE LET r == loginHospitals(cleared, tree, 1, nationalId, password)
             IN  IF r.role # "None" THEN r.ui
                 ELSE [cleared EXCEPT !.loginError = InvalidMessage]

(***************************************************************************)
(* What renderApp and renderContent put on the screen: the handlers a      *)
(* user can invoke are those of the rendered component.                    *)
(***************************************************************************)
ErrorScreen == initializationError # Null
HeaderShown == ~ErrorScreen /\ appScreen # "Welcome"

\* the admin rendering logic: [component, hospital index, department index]
AdminContent ==
    IF appScreen = "HospitalList" \/ selectedHospitalId = NoId
    THEN [component |-> IF currentView = "AdminCommunication"
                        THEN "AdminCommunicationView" ELSE "HospitalList",
          hospital |-> 0, department |-> 0]
    ELSE LET h == findHospital(hospitals, selectedHospitalId)
             d == IF h = 0 THEN 0
                  ELSE findDepartment(hospitals[h], selectedDepartmentId)
             s == IF d = 0 THEN 0
                  ELSE findStaffMember(hospitals[h].departments[d],
                                       selectedStaffId)
             missing == [component |-> "NotFound", hospital |-> 0,
                         department |-> 0]
         IN  IF h = 0 THEN missing
             ELSE CASE currentView \in {"DepartmentView",
                                        "PatientEducationManager"} ->
                          IF d = 0 THEN missing
                          ELSE [component |-> currentView, hospital |-> h,
                                department |-> d]
                    [] currentView = "StaffMemberView" ->
                          IF d = 0 \/ s = 0 THEN missing
                          ELSE [component |-> currentView, hospital |-> h,
                                department |-> d]
                    [] currentView \in {"ChecklistManager", "ExamManager",
                                        "TrainingManager",
                                        "AccreditationManager",
                                        "NewsBannerManager",
                                        "HospitalCommunication"} ->
                          [component |-> currentView, hospital |-> h,
                           department |-> d]
                    [] OTHER ->
                          [component |-> "DepartmentList", hospital |-> h,
                           department |-> d]

Content ==
    LET missing == [component |-> "NotFound", hospital |-> 0, department |-> 0]
    IN  IF ErrorScreen \/ appScreen = "Welcome"
        THEN [component |-> "None", hospital |-> 0, department |-> 0]
        ELSE IF ~isDataLoaded
        THEN [component |-> "Loading", hospital |-> 0, department |-> 0]
        ELSE IF loggedInUser.role \in {"None", "Admin"} THEN AdminContent
        ELSE LET h == findHospital(hospitals, loggedInUser.hospitalId)
                 d == IF h = 0 THEN 0
                      ELSE findDepartment(hospitals[h],
                                          loggedInUser.departmentId)
             IN  IF h = 0 THEN missing
                 ELSE CASE loggedInUser.role = "Patient" ->
                              IF d = 0 \/ findPatient(hospitals[h].departments[d],
                                                      loggedInUser.patientId) = 0
                              THEN missing
                              ELSE [component |-> "PatientPortalView",
                                    hospital |-> h, department |-> d]
                        [] loggedInUser.role = "Staff" ->
                              IF d = 0 \/ findStaffMember(
                                              hospitals[h].departments[d],
                                              loggedInUser.staffId) = 0
                              THEN missing
                              ELSE [component |-> "LockedStaffMemberView",
                                    hospital |-> h, department |-> d]
                        [] loggedInUser.role = "Manager" ->
                              IF d = 0 THEN missing ELSE AdminContent
                        [] OTHER ->
                              [component |-> "LockedDepartmentList",
                               hospital |-> h, department |-> 0]

(***************************************************************************)
(* fetchData.                                                              *)
(***************************************************************************)
\* the call: up to the await of the query
fetchData ==
    IF supabase = NoClient
    THEN isDataLoaded' = TRUE /\ fetches' = fetches
    ELSE isDataLoaded' = FALSE /\ fetches' = Append(fetches, [stage |-> "sent"])

\* the store answers a request: with the rows as they are now, or an error;
\* no store answers at the placeholder address
FetchServe(i, error) ==
    /\ i \in 1..Len(fetches)
    /\ fetches[i].stage = "sent"
    /\ UsesPlaceholder(supabase) => error
    /\ fetches' = [fetches EXCEPT ![i] =
                      IF error THEN [stage |-> "failed"]
                      ELSE [stage |-> "served", data |-> Select(db)]]
    /\ ev' = Idle
    /\ UNCHANGED <<hospitals, isDataLoaded, navVars, modalVars,
                   initializationError, supabase, downloads, carouselVars,
                   remoteVars, tasks>>

\* mutant: a hospital already in the tree keeps its record in memory
FetchResolveMerge(i) ==
    /\ i \in 1..Len(fetches)
    /\ fetches[i].stage # "sent"
    /\ fetches' = Remove(fetches, i)
    /\ isDataLoaded' = TRUE
    /\ IF fetches[i].stage = "failed"
       THEN /\ initializationError' = FetchErrorMessage
            /\ hospitals' = hospitals
            /\ ev' = [op |-> "fetchData", ok |-> FALSE, rows |-> 0]
       ELSE /\ hospitals' =
                  Map(Transform(fetches[i].data),
                      LAMBDA h : IF findHospital(hospitals, h.id) = 0 THEN h
                                 ELSE hospitals[findHospital(hospitals, h.id)])
            /\ initializationError' = initializationError
            /\ ev' = [op |-> "fetchData", ok |-> TRUE,
                      rows |-> Len(fetches[i].data)]
    /\ UNCHANGED <<navVars, modalVars, supabase, downloads, carouselVars,
                   remoteVars, tasks>>
\* the continuation after the await
FetchResolve(i) ==
    /\ i \in 1..Len(fetches)
    /\ fetches[i].stage # "sent"
    /\ fetches' = Remove(fetches, i)
    /\ isDataLoaded' = TRUE
    /\ IF fetches[i].stage = "failed"
       THEN /\ initializationError' = FetchErrorMessage
            /\ hospitals' = hospitals
            /\ ev' = [op |-> "fetchData", ok |-> FALSE, rows |-> 0]
       ELSE /\ hospitals' = Transform(fetches[i].data)
            /\ initializationError' = initializationError
            /\ ev' = [op |-> "fetchData", ok |-> TRUE,
                      rows |-> Len(fetches[i].data)]
    /\ UNCHANGED <<navVars, modalVars, supabase, downloads, carouselVars,
                   remoteVars, tasks>>

(***************************************************************************)
(* Rows other sessions insert into the store before this session's first   *)
(* read is answered.                                                       *)
(***************************************************************************)
Principals(d) ==
    Len(d.hospitals) + Len(d.departments) + Len(d.staff_members)
        + Len(d.patients)
BeforeFirstRead ==
    /\ Len(fetches) = 1
    /\ fetches[1].stage = "sent"
    /\ hospitals = <<>>
    /\ Principals(db) < MaxPrincipals

RemoteInsert(table, row) ==
    /\ BeforeFirstRead
    /\ db' = [db EXCEPT ![table] = Append(@, row)]
    /\ ev' = Idle
    /\ UNCHANGED <<hospitals, isDataLoaded, navVars, modalVars,
                   initializationError, supabase, downloads, carouselVars,
                   blobs, clock,
                   fetches, tasks>>
RemoteInsertHospital ==
    \E c \in StoredCredentials :
        RemoteInsert("hospitals",
                     [id |-> Len(db.hospitals) + 1,
                      name |-> "hospital",
                      supervisor_national_id |-> c[1],
                      supervisor_password |-> c[2],
                      admin_messages |-> <<>>])
RemoteInsertDepartment ==
    \E c \in StoredCredentials, h \in 1..Len(db.hospitals) :
        RemoteInsert("departments",
                     [id |-> Len(db.departments) + 1,
                      hospital_id |-> db.hospitals[h].id,
                      manager_national_id |-> c[1],
                      manager_password |-> c[2]])
RemoteInsertStaff ==
    \E c \in StoredCredentials, d \in 1..Len(db.departments) :
        RemoteInsert("staff_members",
                     [id |-> Len(db.staff_members) + 1,
                      department_id |-> db.departments[d].id,
                      national_id |-> c[1], password |-> c[2]])
RemoteInsertPatient ==
    \E c \in StoredCredentials, d \in 1..Len(db.departments) :
        RemoteInsert("patients",
                     [id |-> Len(db.patients) + 1,
                      department_id |-> db.departments[d].id,
                      national_id |-> c[1], password |-> c[2],
                      chat_history |-> <<>>])

(***************************************************************************)
(* Login and navigation actions.                                           *)
(***************************************************************************)
UiStep(u) ==
    /\ SetUi(u)
    /\ UNCHANGED <<hospitals, isDataLoaded, initializationError, supabase,
                   downloads, carouselVars,
                   remoteVars, fetches, tasks>>

\* WelcomeScreen.onEnter and the header's login button
OpenLoginModal ==
    /\ ~ErrorScreen
    /\ appScreen = "Welcome" \/ loggedInUser.role = "None"
    /\ ~isLoginModalOpen
    /\ ev' = Idle
    /\ UiStep([Ui EXCEPT !.isLoginModalOpen = TRUE])
CloseLoginModal ==
    /\ isLoginModalOpen
    /\ ev' = Idle
    /\ UiStep([Ui EXCEPT !.isLoginModalOpen = FALSE])

\* mutant: the pair is looked up in what the store holds
handleLoginRemote(nationalId, password) ==
    /\ isLoginModalOpen
    /\ ev' = [op |-> "handleLogin", nationalId |-> nationalId,
              password |-> password]
    /\ UiStep(login(Ui, Transform(Select(db)), nationalId, password))
handleLogin(nationalId, password) ==
    /\ isLoginModalOpen
    /\ ev' = [op |-> "handleLogin", nationalId |-> nationalId,
              password |-> password]
    /\ UiStep(login(Ui, hospitals, nationalId, password))

handleLogout ==
    /\ HeaderShown
    /\ loggedInUser.role # "None"
    /\ ev' = [op |-> "handleLogout"]
    /\ UiStep(logout(Ui))

handleGoToWelcome ==
    /\ Content.component = "HospitalList"
    /\ ev' = [op |-> "handleGoToWelcome"]
    /\ UiStep(goToWelcome(Ui))

handleSelectHospital ==
    /\ Content.component = "HospitalList"
    /\ \E h \in 1..Len(hospitals) :
          UiStep(selectHospital(Ui, hospitals[h].id))
    /\ ev' = Idle

handleSelectDepartment ==
    /\ Content.component \in {"DepartmentList", "LockedDepartmentList"}
    /\ \E d \in 1..Len(hospitals[Content.hospital].departments) :
          UiStep(selectDepartment(Ui,
                     hospitals[Content.hospital].departments[d].id))
    /\ ev' = Idle

handleSelectStaff ==
    /\ Content.component = "DepartmentView"
    /\ LET department == hospitals[Content.hospital].departments[Content.department]
       IN  \E s \in 1..Len(department.staff) :
              UiStep(selectStaff(Ui, department.staff[s].id))
    /\ ev' = Idle

\* the back button of the header and the onBack of the admin views
handleBack ==
    /\ HeaderShown
    /\ appScreen = "MainApp"
    /\ ev' = [op |-> "handleBack"]
    /\ UiStep(back(Ui))

\* the inline () => setCurrentView(...) props
ViewsFrom(component) ==
    CASE component = "HospitalList" -> {"AdminCommunication"}
      [] component = "AdminCommunicationView" -> {"DepartmentList"}
      [] component \in {"DepartmentList", "LockedDepartmentList"} ->
            {"AccreditationManager", "NewsBannerManager", "HospitalCommunication"}
      [] component = "DepartmentView" ->
            {"ChecklistManager", "ExamManager", "TrainingManager",
             "PatientEducationManager"}
      [] OTHER -> {}
SetCurrentView ==
    /\ \E v \in ViewsFrom(Content.component) :
          UiStep([Ui EXCEPT !.currentView = v])
    /\ ev' = Idle

(***************************************************************************)
(* Mutation handlers. A handler runs up to its first await (the action     *)
(* named after it), is suspended in `tasks` while the request is in        *)
(* flight, and continues when the request is answered (the action named    *)
(* after the handler and the awaited request). `ok` is the answer: the     *)
(* store applies a write exactly when it answers without an error.         *)
(***************************************************************************)
Insert(d, table, row) == [d EXCEPT ![table] = Append(@, row)]
DeleteWhere(d, table, column, value) ==
    [d EXCEPT ![table] = Filter(@, LAMBDA r : r[column] # value)]
UpdateWhere(d, table, id, column, value) ==
    [d EXCEPT ![table] =
        Map(@, LAMBDA r : IF r.id = id THEN [r EXCEPT ![column] = value] ELSE r)]
\* { ...r, ...updatedData }
Merge(r, updatedData) ==
    [k \in DOMAIN r \cup DOMAIN updatedData |->
        IF k \in DOMAIN updatedData THEN updatedData[k] ELSE r[k]]

Event(op, await, ok, alert) ==
    [op |-> op, await |-> await, ok |-> ok, alert |-> alert]
CanCall ==
    /\ supabase # NoClient
    /\ clock < MaxClock
Suspended(i, op, await) ==
    /\ i \in 1..Len(tasks)
    /\ tasks[i].op = op
    /\ tasks[i].await = await
NoResync == UNCHANGED <<isDataLoaded, fetches>>
uiVars == <<navVars, modalVars, initializationError, supabase, downloads,
           carouselVars>>

\* the call of a handler that suspends at its first await
Call(op, task) ==
    /\ CanCall
    /\ clock' = clock + 1
    /\ tasks' = Append(tasks, task)
    /\ ev' = Event(op, "call", TRUE, Null)
    /\ NoResync
    /\ UNCHANGED <<hospitals, db, blobs, uiVars>>

NewCredentials == { <<"123", "pw">> }

handleAddHospital ==
    /\ Content.component = "HospitalList"
    /\ \E c \in NewCredentials :
          Call("handleAddHospital",
               [op |-> "handleAddHospital", await |-> "insert",
                row |-> [id |-> clock + 1,
                         name |-> "hospital",
                         supervisor_national_id |-> c[1],
                         supervisor_password |-> c[2],
                         admin_messages |-> <<>>]])
handleAddHospital_insert(i, ok) ==
    /\ Suspended(i, "handleAddHospital", "insert")
    /\ tasks' = Remove(tasks, i)
    /\ IF ok
       THEN /\ db' = Insert(db, "hospitals", tasks[i].row)
            /\ fetchData
            /\ ev' = Event("handleAddHospital", "insert", TRUE, Null)
       ELSE /\ db' = db
            /\ NoResync
            /\ ev' = Event("handleAddHospital", "insert", FALSE,
                           "error adding hospital")
    /\ UNCHANGED <<hospitals, blobs, clock, uiVars>>

\* local only: no request is sent
UpdatedHospitalData == { [supervisorPassword |-> "wrong"] }
\* mutant: the fields are written to every hospital
handleUpdateHospitalAll ==
    /\ Content.component = "HospitalList"
    /\ clock < MaxClock
    /\ clock' = clock + 1
    /\ hospitals # <<>>
    /\ \E updatedData \in UpdatedHospitalData :
          hospitals' = Map(hospitals, LAMBDA x : Merge(x, updatedData))
    /\ ev' = Event("handleUpdateHospital", "call", TRUE, Null)
    /\ NoResync
    /\ UNCHANGED <<db, blobs, tasks, uiVars>>
handleUpdateHospital ==
    /\ Content.component = "HospitalList"
    /\ clock < MaxClock
    /\ clock' = clock + 1
    /\ \E h \in 1..Len(hospitals), updatedData \in UpdatedHospitalData :
          hospitals' = Map(hospitals,
                           LAMBDA x : IF x.id = hospitals[h].id
                                      THEN Merge(x, updatedData) ELSE x)
    /\ ev' = Event("handleUpdateHospital", "call", TRUE, Null)
    /\ NoResync
    /\ UNCHANGED <<db, blobs, tasks, uiVars>>

handleDeleteHospital ==
    /\ Content.component = "HospitalList"
    /\ \E h \in 1..Len(hospitals) :
          Call("handleDeleteHospital",
               [op |-> "handleDeleteHospital", await |-> "delete",
                id |-> hospitals[h].id])
handleDeleteHospital_delete(i, ok) ==
    /\ Suspended(i, "handleDeleteHospital", "delete")
    /\ tasks' = Remove(tasks, i)
    /\ IF ok
       THEN /\ db' = DeleteWhere(db, "hospitals", "id", tasks[i].id)
            /\ fetchData
            /\ ev' = Event("handleDeleteHospital", "delete", TRUE, Null)
       ELSE /\ db' = db
            /\ NoResync
            /\ ev' = Event("handleDeleteHospital", "delete", FALSE,
                           "failed to delete hospital")
    /\ UNCHANGED <<hospitals, blobs, clock, uiVars>>

DepartmentListShown ==
    Content.component \in {"DepartmentList", "LockedDepartmentList"}

handleAddDepartment ==
    /\ DepartmentListShown
    /\ selectedHospitalId # NoId
    /\ \E c \in NewCredentials :
          Call("handleAddDepartment",
               [op |-> "handleAddDepartment", await |-> "insert",
                row |-> [id |-> clock + 1,
                         hospital_id |-> selectedHospitalId,
                         manager_national_id |-> c[1],
                         manager_password |-> c[2]]])
\* mutant: fetchData is called whether or not the insert failed
handleAddDepartment_insertResync(i, ok) ==
    /\ Suspended(i, "handleAddDepartment", "insert")
    /\ tasks' = Remove(tasks, i)
    /\ db' = IF ok THEN Insert(db, "departments", tasks[i].row) ELSE db
    /\ fetchData
    /\ ev' = Event("handleAddDepartment", "insert", ok,
                   IF ok THEN Null ELSE "failed to add department")
    /\ UNCHANGED <<hospitals, blobs, clock, uiVars>>
handleAddDepartment_insert(i, ok) ==
    /\ Suspended(i, "handleAddDepartment", "insert")
    /\ tasks' = Remove(tasks, i)
    /\ IF ok
       THEN /\ db' = Insert(db, "departments", tasks[i].row)
            /\ fetchData
            /\ ev' = Event("handleAddDepartment", "insert", TRUE, Null)
       ELSE /\ db' = db
            /\ NoResync
            /\ ev' = Event("handleAddDepartment", "insert", FALSE,
                           "failed to add department")
    /\ UNCHANGED <<hospitals, blobs, clock, uiVars>>

\* local only: no request is sent
UpdatedDepartmentData == { [managerPassword |-> "wrong"] }
handleUpdateDepartment ==
    /\ DepartmentListShown
    /\ clock < MaxClock
    /\ clock' = clock + 1
    /\ \E d \in 1..Len(hospitals[Content.hospital].departments),
          updatedData \in UpdatedDepartmentData :
          LET id == hospitals[Content.hospital].departments[d].id
          IN  hospitals' =
                Map(hospitals,
                    LAMBDA h :
                        IF h.id = selectedHospitalId
                        THEN [h EXCEPT !.departments =
                                 Map(@, LAMBDA x : IF x.id = id
                                                   THEN Merge(x, updatedData)
                                                   ELSE x)]
                        ELSE h)
    /\ ev' = Event("handleUpdateDepartment", "call", TRUE, Null)
    /\ NoResync
    /\ UNCHANGED <<db, blobs, tasks, uiVars>>

handleDeleteDepartment ==
    /\ DepartmentListShown
    /\ \E d \in 1..Len(hospitals[Content.hospital].departments) :
          Call("handleDeleteDepartment",
               [op |-> "handleDeleteDepartment", await |-> "delete",
                id |-> hospitals[Content.hospital].departments[d].id])
handleDeleteDepartment_delete(i, ok) ==
    /\ Suspended(i, "handleDeleteDepartment", "delete")
    /\ tasks' = Remove(tasks, i)
    /\ IF ok
       THEN /\ db' = DeleteWhere(db, "departments", "id", tasks[i].id)
            /\ fetchData
            /\ ev' = Event("handleDeleteDepartment", "delete", TRUE, Null)
       ELSE /\ db' = db
            /\ NoResync
            /\ ev' = Event("handleDeleteDepartment", "delete", FALSE,
                           "failed to delete department")
    /\ UNCHANGED <<hospitals, blobs, clock, uiVars>>

\* the closure of the handler keeps the tree and the selection of the render
\* it was called in; they are what its continuation writes back
ResetCredentials == { <<"123", "pw">>, <<"123", "wrong">> }
handleResetHospital ==
    /\ DepartmentListShown
    /\ \E c \in ResetCredentials :
          LET h == findHospital(hospitals, selectedHospitalId)
          IN  IF h # 0 /\ hospitals[h].supervisorNationalId = c[1]
                 /\ hospitals[h].supervisorPassword = c[2]
              THEN Call("handleResetHospital",
                        [op |-> "handleResetHospital", await |-> "delete",
                         hospitalId |-> hospitals[h].id,
                         supervisorNationalId |-> c[1],
                         supervisorPassword |-> c[2],
                         selectedHospitalId |-> selectedHospitalId,
                         hospitals |-> hospitals])
              ELSE /\ supabase # NoClient
                   /\ clock < MaxClock
                   /\ clock' = clock + 1
                   /\ ev' = [Event("handleResetHospital", "call", TRUE, Null)
                             EXCEPT !.ok = FALSE]
                   /\ NoResync
                   /\ UNCHANGED <<hospitals, db, blobs, tasks, uiVars>>
handleResetHospital_delete(i, ok) ==
    /\ Suspended(i, "handleResetHospital", "delete")
    /\ tasks' = Remove(tasks, i)
    /\ IF ok
       THEN /\ db' = DeleteWhere(db, "departments", "hospital_id",
                                 tasks[i].hospitalId)
            /\ hospitals' =
                 Map(tasks[i].hospitals,
                     LAMBDA h : IF h.id = tasks[i].selectedHospitalId
                                THEN [h EXCEPT !.departments = <<>>] ELSE h)
            /\ ev' = Event("handleResetHospital", "delete", TRUE, Null)
       ELSE /\ db' = db
            /\ hospitals' = hospitals
            /\ ev' = Event("handleResetHospital", "delete", FALSE,
                           "failed to reset hospital departments")
    /\ NoResync
    /\ UNCHANGED <<blobs, clock, uiVars>>

(***************************************************************************)
(* Materials and news banners: the file goes to the blob storage, its row  *)
(* to the store. A blob is named by the time of the call that uploads it.  *)
(***************************************************************************)
Months == { "month1" }
Descriptions == { "edited" }
BlobDeleteOutcomes == { "ok", "error", "rejected" }

RECURSIVE Flatten(_)
Flatten(ss) == IF ss = <<>> THEN <<>> ELSE Head(ss) \o Flatten(Tail(ss))
MonthlyMaterials(h) ==
    Flatten(Map(OrEmpty(h, "trainingMaterials"), LAMBDA t : t.materials))
\* the flatMap of handleDeleteMaterial
MaterialsOfHospital(h) ==
    OrEmpty(h, "accreditationMaterials") \o MonthlyMaterials(h)
        \o Flatten(Map(OrEmpty(h, "departments"),
                       LAMBDA d : OrEmpty(d, "patientEducationMaterials")))
AllMaterials(tree) == Flatten(Map(tree, MaterialsOfHospital))

\* the context the rendered manager passes to handleAddMaterial
MaterialContexts ==
    LET c == Content
        hospitalId == hospitals[c.hospital].id
    IN  CASE c.component = "TrainingManager" ->
                { [hospitalId |-> hospitalId, departmentId |-> NoId,
                   month |-> m, type |-> "monthly_staff"] : m \in Months }
          [] c.component = "AccreditationManager" ->
                { [hospitalId |-> hospitalId, departmentId |-> NoId,
                   month |-> "", type |-> "accreditation"] }
          [] c.component = "PatientEducationManager" ->
                { [hospitalId |-> hospitalId,
                   departmentId |->
                       hospitals[c.hospital].departments[c.department].id,
                   month |-> "", type |-> "patient_education"] }
          [] OTHER -> {}
\* the materials the rendered manager lists
ShownMaterials ==
    LET c == Content
    IN  CASE c.component = "TrainingManager" ->
                MonthlyMaterials(hospitals[c.hospital])
          [] c.component = "AccreditationManager" ->
                hospitals[c.hospital].accreditationMaterials
          [] c.component = "PatientEducationManager" ->
                hospitals[c.hospital].departments[c.department]
                    .patientEducationMaterials
          [] OTHER -> <<>>

handleAddMaterial ==
    \E context \in MaterialContexts :
        Call("handleAddMaterial",
             [op |-> "handleAddMaterial", await |-> "upload",
              url |-> clock + 1, context |-> context])
handleAddMaterial_upload(i, ok) ==
    /\ Suspended(i, "handleAddMaterial", "upload")
    /\ IF ok
       THEN /\ blobs' = blobs \cup {tasks[i].url}
            /\ clock' = clock + 1
            /\ tasks' = [tasks EXCEPT ![i] =
                 [op |-> "handleAddMaterial", await |-> "insert",
                  url |-> tasks[i].url,
                  row |-> [id |-> clock + 1,
                           hospital_id |-> tasks[i].context.hospitalId,
                           department_id |-> tasks[i].context.departmentId,
                           material_type |-> tasks[i].context.type,
                           month |-> tasks[i].context.month,
                           description |-> "text",
                           file_path |-> tasks[i].url]]]
            /\ ev' = Event("handleAddMaterial", "upload", TRUE, Null)
       ELSE /\ UNCHANGED <<blobs, clock>>
            /\ tasks' = Remove(tasks, i)
            /\ ev' = Event("handleAddMaterial", "upload", FALSE,
                           "Error uploading file.")
    /\ NoResync
    /\ UNCHANGED <<hospitals, db, uiVars>>
handleAddMaterial_insert(i, ok) ==
    /\ Suspended(i, "handleAddMaterial", "insert")
    /\ tasks' = Remove(tasks, i)
    /\ IF ok
       THEN /\ db' = Insert(db, "training_materials", tasks[i].row)
            /\ fetchData
            /\ ev' = Event("handleAddMaterial", "insert", TRUE, Null)
       ELSE /\ db' = db
            /\ NoResync
            /\ ev' = Event("handleAddMaterial", "insert", FALSE,
                           "Error uploading file.")
    /\ UNCHANGED <<hospitals, blobs, clock, uiVars>>

handleDeleteMaterial ==
    \E m \in 1..Len(ShownMaterials) :
        LET materialId == ShownMaterials[m].id
            all == AllMaterials(hospitals)
            found == FirstIndex(all, LAMBDA x : x.id = materialId)
        IN  IF found = 0 \/ all[found].filePath = NoId
            THEN /\ supabase # NoClient
                 /\ clock < MaxClock
                 /\ clock' = clock + 1
                 /\ ev' = Event("handleDeleteMaterial", "call", FALSE,
                                "Material not found or has no file path.")
                 /\ NoResync
                 /\ UNCHANGED <<hospitals, db, blobs, tasks, uiVars>>
            ELSE Call("handleDeleteMaterial",
                      [op |-> "handleDeleteMaterial", await |-> "blobDelete",
                       id |-> materialId, url |-> all[found].filePath])
handleDeleteMaterial_blobDelete(i, res) ==
    /\ Suspended(i, "handleDeleteMaterial", "blobDelete")
    /\ IF res = "ok"
       THEN /\ blobs' = blobs \ {tasks[i].url}
            /\ tasks' = [tasks EXCEPT ![i].await = "delete"]
            /\ ev' = Event("handleDeleteMaterial", "blobDelete", TRUE, Null)
       ELSE /\ blobs' = blobs
            /\ tasks' = Remove(tasks, i)
            /\ ev' = Event("handleDeleteMaterial", "blobDelete", FALSE,
                           "Failed to delete material.")
    /\ NoResync
    /\ UNCHANGED <<hospitals, db, clock, uiVars>>
handleDeleteMaterial_delete(i, ok) ==
    /\ Suspended(i, "handleDeleteMaterial", "delete")
    /\ tasks' = Remove(tasks, i)
    /\ IF ok
       THEN /\ db' = DeleteWhere(db, "training_materials", "id", tasks[i].id)
            /\ fetchData
            /\ ev' = Event("handleDeleteMaterial", "delete", TRUE, Null)
       ELSE /\ db' = db
            /\ NoResync
            /\ ev' = Event("handleDeleteMaterial", "delete", FALSE,
                           "Failed to delete material.")
    /\ UNCHANGED <<hospitals, blobs, clock, uiVars>>

handleUpdateMaterialDescription ==
    \E m \in 1..Len(ShownMaterials), description \in Descriptions :
        Call("handleUpdateMaterialDescription",
             [op |-> "handleUpdateMaterialDescription", await |-> "update",
              id |-> ShownMaterials[m].id, description |-> description])
\* mutant: a successful update is not followed by fetchData
handleUpdateMaterialDescription_updateOnly(i, ok) ==
    /\ Suspended(i, "handleUpdateMaterialDescription", "update")
    /\ tasks' = Remove(tasks, i)
    /\ db' = IF ok THEN UpdateWhere(db, "training_materials", tasks[i].id,
                                    "description", tasks[i].description)
             ELSE db
    /\ NoResync
    /\ ev' = Event("handleUpdateMaterialDescription", "update", ok,
                   IF ok THEN Null ELSE "Failed to update description")
    /\ UNCHANGED <<hospitals, blobs, clock, uiVars>>
handleUpdateMaterialDescription_update(i, ok) ==
    /\ Suspended(i, "handleUpdateMaterialDescription", "update")
    /\ tasks' = Remove(tasks, i)
    /\ IF ok
       THEN /\ db' = UpdateWhere(db, "training_materials", tasks[i].id,
                                 "description", tasks[i].description)
            /\ fetchData
            /\ ev' = Event("handleUpdateMaterialDescription", "update", TRUE,
                           Null)
       ELSE /\ db' = db
            /\ NoResync
            /\ ev' = Event("handleUpdateMaterialDescription", "update", FALSE,
                           "Failed to update description")
    /\ UNCHANGED <<hospitals, blobs, clock, uiVars>>

handleAddNewsBanner ==
    /\ Content.component = "NewsBannerManager"
    /\ selectedHospitalId # NoId
    /\ Call("handleAddNewsBanner",
            [op |-> "handleAddNewsBanner", await |-> "upload",
             url |-> clock + 1, selectedHospitalId |-> selectedHospitalId])
handleAddNewsBanner_upload(i, ok) ==
    /\ Suspended(i, "handleAddNewsBanner", "upload")
    /\ IF ok
       THEN /\ blobs' = blobs \cup {tasks[i].url}
            /\ clock' = clock + 1
            /\ tasks' = [tasks EXCEPT ![i] =
                 [op |-> "handleAddNewsBanner", await |-> "insert",
                  url |-> tasks[i].url,
                  row |-> [id |-> clock + 1,
                           hospital_id |-> tasks[i].selectedHospitalId,
                           description |-> "text",
                           image_path |-> tasks[i].url]]]
            /\ ev' = Event("handleAddNewsBanner", "upload", TRUE, Null)
       ELSE /\ UNCHANGED <<blobs, clock>>
            /\ tasks' = Remove(tasks, i)
            /\ ev' = Event("handleAddNewsBanner", "upload", FALSE,
                           "Error saving banner.")
    /\ NoResync
    /\ UNCHANGED <<hospitals, db, uiVars>>
handleAddNewsBanner_insert(i, ok) ==
    /\ Suspended(i, "handleAddNewsBanner", "insert")
    /\ tasks' = Remove(tasks, i)
    /\ IF ok
       THEN /\ db' = Insert(db, "news_banners", tasks[i].row)
            /\ fetchData
            /\ ev' = Event("handleAddNewsBanner", "insert", TRUE, Null)
       ELSE /\ db' = db
            /\ NoResync
            /\ ev' = Event("handleAddNewsBanner", "insert", FALSE,
                           "Error saving banner.")
    /\ UNCHANGED <<hospitals, blobs, clock, uiVars>>

handleDeleteNewsBanner ==
    /\ Content.component = "NewsBannerManager"
    /\ \E b \in 1..Len(hospitals[Content.hospital].newsBanners) :
          LET bannerId == hospitals[Content.hospital].newsBanners[b].id
              h == findHospital(hospitals, selectedHospitalId)
              found == IF h = 0 THEN 0
                       ELSE FirstIndex(OrEmpty(hospitals[h], "newsBanners"),
                                       LAMBDA x : x.id = bannerId)
          IN  IF found = 0 \/ hospitals[h].newsBanners[found].imagePath = NoId
              THEN /\ supabase # NoClient
                   /\ clock < MaxClock
                   /\ clock' = clock + 1
                   /\ ev' = Event("handleDeleteNewsBanner", "call", FALSE, Null)
                   /\ NoResync
                   /\ UNCHANGED <<hospitals, db, blobs, tasks, uiVars>>
              ELSE Call("handleDeleteNewsBanner",
                        [op |-> "handleDeleteNewsBanner",
                         await |-> "blobDelete", id |-> bannerId,
                         url |-> hospitals[h].newsBanners[found].imagePath])
\* the response is not inspected: only a rejected request reaches the catch
handleDeleteNewsBanner_blobDelete(i, res) ==
    /\ Suspended(i, "handleDeleteNewsBanner", "blobDelete")
    /\ blobs' = IF res = "ok" THEN blobs \ {tasks[i].url} ELSE blobs
    /\ IF res = "rejected"
       THEN /\ tasks' = Remove(tasks, i)
            /\ ev' = Event("handleDeleteNewsBanner", "blobDelete", FALSE,
                           "Failed to delete banner.")
       ELSE /\ tasks' = [tasks EXCEPT ![i].await = "delete"]
            /\ ev' = Event("handleDeleteNewsBanner", "blobDelete", res = "ok",
                           Null)
    /\ NoResync
    /\ UNCHANGED <<hospitals, db, clock, uiVars>>
\* the result of the delete is dropped
handleDeleteNewsBanner_delete(i, ok) ==
    /\ Suspended(i, "handleDeleteNewsBanner", "delete")
    /\ tasks' = Remove(tasks, i)
    /\ db' = IF ok THEN DeleteWhere(db, "news_banners", "id", tasks[i].id)
             ELSE db
    /\ fetchData
    /\ ev' = Event("handleDeleteNewsBanner", "delete", ok, Null)
    /\ UNCHANGED <<hospitals, blobs, clock, uiVars>>

handleUpdateNewsBanner ==
    /\ Content.component = "NewsBannerManager"
    /\ \E b \in 1..Len(hospitals[Content.hospital].newsBanners),
          description \in Descriptions :
          Call("handleUpdateNewsBanner",
               [op |-> "handleUpdateNewsBanner", await |-> "update",
                id |-> hospitals[Content.hospital].newsBanners[b].id,
                description |-> description])
\* the result of the update is dropped
handleUpdateNewsBanner_update(i, ok) ==
    /\ Suspended(i, "handleUpdateNewsBanner", "update")
    /\ tasks' = Remove(tasks, i)
    /\ db' = IF ok THEN UpdateWhere(db, "news_banners", tasks[i].id,
                                    "description", tasks[i].description)
             ELSE db
    /\ fetchData
    /\ ev' = Event("handleUpdateNewsBanner", "update", ok, Null)
    /\ UNCHANGED <<hospitals, blobs, clock, uiVars>>

(***************************************************************************)
(* Chat messages. A message keeps its id, its sender and the blob of its   *)
(* attachment (NoId: a text message). The handler reads the thread from    *)
(* the tree of the render it was called in and writes the whole thread.    *)
(***************************************************************************)
Contents == { [text |-> TRUE, file |-> FALSE], [text |-> FALSE, file |-> TRUE] }

\* the ids and the sender the rendered component passes
ChatTargets ==
    LET c == Content
    IN  CASE c.component = "AdminCommunicationView" ->
                { [hospitalId |-> hospitals[h].id, departmentId |-> NoId,
                   patientId |-> NoId, sender |-> "admin"] :
                  h \in 1..Len(hospitals) }
          [] c.component = "HospitalCommunication" ->
                { [hospitalId |-> hospitals[c.hospital].id,
                   departmentId |-> NoId, patientId |-> NoId,
                   sender |-> "hospital"] }
          [] c.component = "PatientEducationManager" ->
                LET department ==
                        hospitals[c.hospital].departments[c.department]
                IN  { [hospitalId |-> hospitals[c.hospital].id,
                       departmentId |-> department.id,
                       patientId |-> department.patients[p].id,
                       sender |-> "manager"] :
                      p \in 1..Len(department.patients) }
          [] c.component = "PatientPortalView" ->
                { [hospitalId |-> hospitals[c.hospital].id,
                   departmentId |->
                       hospitals[c.hospital].departments[c.department].id,
                   patientId |-> loggedInUser.patientId,
                   sender |-> "patient"] }
          [] OTHER -> {}

NoWrite == [table |-> "none"]
\* the update the handler issues for a message, NoWrite when it returns
SendUpdate(tree, ids, newMessage) ==
    LET h == findHospital(tree, ids.hospitalId)
    IN  IF ids.patientId # NoId /\ ids.departmentId # NoId
        THEN LET d == IF h = 0 THEN 0
                      ELSE findDepartment(tree[h], ids.departmentId)
                 p == IF d = 0 THEN 0
                      ELSE findPatient(tree[h].departments[d], ids.patientId)
             IN  IF p = 0 THEN NoWrite
                 ELSE [table |-> "patients", id |-> ids.patientId,
                       column |-> "chat_history",
                       value |-> Append(OrEmpty(tree[h].departments[d]
                                                    .patients[p],
                                                "chatHistory"), newMessage)]
        ELSE IF h = 0 THEN NoWrite
             ELSE [table |-> "hospitals", id |-> ids.hospitalId,
                   column |-> "admin_messages",
                   value |-> Append(OrEmpty(tree[h], "adminMessages"),
                                    newMessage)]

handleSendChatMessage ==
    \E ids \in ChatTargets, content \in Contents :
        IF content.file
        THEN Call("handleSendChatMessage",
                  [op |-> "handleSendChatMessage", await |-> "upload",
                   url |-> clock + 1, ids |-> ids, hospitals |-> hospitals])
        ELSE LET write == SendUpdate(hospitals, ids,
                                     [id |-> clock + 1, sender |-> ids.sender,
                                      file |-> NoId])
             IN  IF write = NoWrite
                 THEN /\ supabase # NoClient
                      /\ clock < MaxClock
                      /\ clock' = clock + 1
                      /\ ev' = Event("handleSendChatMessage", "call", FALSE,
                                     Null)
                      /\ NoResync
                      /\ UNCHANGED <<hospitals, db, blobs, tasks, uiVars>>
                 ELSE Call("handleSendChatMessage",
                           [op |-> "handleSendChatMessage", await |-> "update",
                            write |-> write])
handleSendChatMessage_upload(i, ok) ==
    /\ Suspended(i, "handleSendChatMessage", "upload")
    /\ IF ok
       THEN LET write == SendUpdate(tasks[i].hospitals, tasks[i].ids,
                                    [id |-> clock + 1,
                                     sender |-> tasks[i].ids.sender,
                                     file |-> tasks[i].url])
            IN  /\ blobs' = blobs \cup {tasks[i].url}
                /\ clock' = clock + 1
                /\ tasks' = IF write = NoWrite THEN Remove(tasks, i)
                            ELSE [tasks EXCEPT ![i] =
                                     [op |-> "handleSendChatMessage",
                                      await |-> "update", write |-> write]]
                /\ ev' = Event("handleSendChatMessage", "upload", TRUE, Null)
       ELSE /\ UNCHANGED <<blobs, clock>>
            /\ tasks' = Remove(tasks, i)
            /\ ev' = Event("handleSendChatMessage", "upload", FALSE,
                           "Error uploading attachment.")
    /\ NoResync
    /\ UNCHANGED <<hospitals, db, uiVars>>
\* mutant: the new message is appended to the list the store holds
handleSendChatMessage_updateAppend(i, ok) ==
    /\ Suspended(i, "handleSendChatMessage", "update")
    /\ tasks' = Remove(tasks, i)
    /\ db' = IF ok
             THEN LET w == tasks[i].write
                  IN  [db EXCEPT ![w.table] =
                          Map(@, LAMBDA r :
                                 IF r.id = w.id
                                 THEN [r EXCEPT ![w.column] =
                                          Append(@, w.value[Len(w.value)])]
                                 ELSE r)]
             ELSE db
    /\ fetchData
    /\ ev' = Event("handleSendChatMessage", "update", ok,
                   IF ok THEN Null ELSE "Failed to send message.")
    /\ UNCHANGED <<hospitals, blobs, clock, uiVars>>
\* a failed update is alerted, and fetchData is called all the same
handleSendChatMessage_update(i, ok) ==
    /\ Suspended(i, "handleSendChatMessage", "update")
    /\ tasks' = Remove(tasks, i)
    /\ db' = IF ok
             THEN UpdateWhere(db, tasks[i].write.table, tasks[i].write.id,
                              tasks[i].write.column, tasks[i].write.value)
             ELSE db
    /\ fetchData
    /\ ev' = Event("handleSendChatMessage", "update", ok,
                   IF ok THEN Null ELSE "Failed to send message.")
    /\ UNCHANGED <<hospitals, blobs, clock, uiVars>>

(***************************************************************************)
(* The state after the component mounted: the effect has called fetchData. *)
(***************************************************************************)
Init ==
    /\ hospitals = <<>>
    /\ isDataLoaded = FALSE
    /\ appScreen = "Welcome"
    /\ currentView = "DepartmentList"
    /\ selectedHospitalId = NoId
    /\ selectedDepartmentId = NoId
    /\ selectedStaffId = NoId
    /\ isLoginModalOpen = FALSE
    /\ loginError = Null
    /\ loggedInUser = NoUser
    /\ initializationError = Null
    /\ supabase = createClient(ConfiguredEnv)
    /\ db = EmptyDb
    /\ blobs = {}
    /\ clock = 0
    /\ fetches = <<[stage |-> "sent"]>>
    /\ tasks = <<>>
    /\ downloads = <<>>
    /\ CarouselBeforeMount
    /\ ev = Idle

(***************************************************************************)
(* Login over the trees a first fetch can return.                          *)
(***************************************************************************)
NextLogin ==
    \/ RemoteInsertHospital
    \/ RemoteInsertDepartment
    \/ RemoteInsertStaff
    \/ RemoteInsertPatient
    \/ \E i \in 1..Len(fetches), error \in BOOLEAN : FetchServe(i, error)
    \/ \E i \in 1..Len(fetches) : FetchResolve(i)
    \/ OpenLoginModal
    \/ CloseLoginModal
    \/ \E c \in SubmittedCredentials : handleLogin(c[1], c[2])
    \/ handleLogout
    \/ handleGoToWelcome
    \/ handleSelectHospital
    \/ handleSelectDepartment
    \/ handleSelectStaff
    \/ handleBack
    \/ SetCurrentView
SpecLogin == Init /\ [][NextLogin]_vars

(***************************************************************************)
(* The mutation handlers, over a store that holds a hospital with a        *)
(* department, a patient, a material and a news banner, all created        *)
(* before the session started (time 0).                                    *)
(***************************************************************************)
SeedDb ==
    [hospitals |-> << [id |-> -1, name |-> "hospital",
                       supervisor_national_id |-> "123",
                       supervisor_password |-> "pw",
                       admin_messages |-> <<>>] >>,
     departments |-> << [id |-> -1, hospital_id |-> -1,
                         manager_national_id |-> "123",
                         manager_password |-> "pw"] >>,
     staff_members |-> <<>>,
     patients |-> << [id |-> -1, department_id |-> -1, national_id |-> "123",
                      password |-> "pw", chat_history |-> <<>>] >>,
     training_materials |-> << [id |-> -1, hospital_id |-> -1,
                                department_id |-> -1,
                                material_type |-> "patient_education",
                                month |-> "", description |-> "text",
                                file_path |-> -1] >>,
     news_banners |-> << [id |-> -1, hospital_id |-> -1,
                          description |-> "text", image_path |-> -2] >>]
SeedBlobs == { -1, -2 }

InitMut ==
    /\ hospitals = <<>>
    /\ isDataLoaded = FALSE
    /\ appScreen = "Welcome"
    /\ currentView = "DepartmentList"
    /\ selectedHospitalId = NoId
    /\ selectedDepartmentId = NoId
    /\ selectedStaffId = NoId
    /\ isLoginModalOpen = FALSE
    /\ loginError = Null
    /\ loggedInUser = NoUser
    /\ initializationError = Null
    /\ supabase = createClient(ConfiguredEnv)
    /\ db = SeedDb
    /\ blobs = SeedBlobs
    /\ clock = 0
    /\ fetches = <<[stage |-> "sent"]>>
    /\ tasks = <<>>
    /\ downloads = <<>>
    /\ CarouselBeforeMount
    /\ ev = Idle

NextMut ==
    \/ \E i \in 1..Len(fetches), error \in BOOLEAN : FetchServe(i, error)
    \/ \E i \in 1..Len(fetches) : FetchResolve(i)
    \/ OpenLoginModal
    \/ handleLogin(AdminNationalId, AdminPassword)
    \/ handleSelectHospital
    \/ handleSelectDepartment
    \/ SetCurrentView
    \/ handleAddHospital
    \/ \E i \in 1..Len(tasks), ok \in BOOLEAN : handleAddHospital_insert(i, ok)
    \/ handleUpdateHospital
    \/ handleDeleteHospital
    \/ \E i \in 1..Len(tasks), ok \in BOOLEAN :
          handleDeleteHospital_delete(i, ok)
    \/ handleAddDepartment
    \/ \E i \in 1..Len(tasks), ok \in BOOLEAN :
          handleAddDepartment_insert(i, ok)
    \/ handleUpdateDepartment
    \/ handleDeleteDepartment
    \/ \E i \in 1..Len(tasks), ok \in BOOLEAN :
          handleDeleteDepartment_delete(i, ok)
    \/ handleResetHospital
    \/ \E i \in 1..Len(tasks), ok \in BOOLEAN :
          handleResetHospital_delete(i, ok)
    \/ handleAddMaterial
    \/ \E i \in 1..Len(tasks), ok \in BOOLEAN : handleAddMaterial_upload(i, ok)
    \/ \E i \in 1..Len(tasks), ok \in BOOLEAN : handleAddMaterial_insert(i, ok)
    \/ handleDeleteMaterial
    \/ \E i \in 1..Len(tasks), res \in BlobDeleteOutcomes :
          handleDeleteMaterial_blobDelete(i, res)
    \/ \E i \in 1..Len(tasks), ok \in BOOLEAN :
          handleDeleteMaterial_delete(i, ok)
    \/ handleUpdateMaterialDescription
    \/ \E i \in 1..Len(tasks), ok \in BOOLEAN :
          handleUpdateMaterialDescription_update(i, ok)
    \/ handleAddNewsBanner
    \/ \E i \in 1..Len(tasks), ok \in BOOLEAN :
          handleAddNewsBanner_upload(i, ok)
    \/ \E i \in 1..Len(tasks), ok \in BOOLEAN :
          handleAddNewsBanner_insert(i, ok)
    \/ handleDeleteNewsBanner
    \/ \E i \in 1..Len(tasks), res \in BlobDeleteOutcomes :
          handleDeleteNewsBanner_blobDelete(i, res)
    \/ \E i \in 1..Len(tasks), ok \in BOOLEAN :
          handleDeleteNewsBanner_delete(i, ok)
    \/ handleUpdateNewsBanner
    \/ \E i \in 1..Len(tasks), ok \in BOOLEAN :
          handleUpdateNewsBanner_update(i, ok)
    \/ handleSendChatMessage
    \/ \E i \in 1..Len(tasks), ok \in BOOLEAN :
          handleSendChatMessage_upload(i, ok)
    \/ \E i \in 1..Len(tasks), ok \in BOOLEAN :
          handleSendChatMessage_update(i, ok)
SpecMut == InitMut /\ [][NextMut]_vars

(***************************************************************************)
(* The transformation over response bodies: a hospital row with any of its *)
(* child collections absent (an absent or null value is falsy in           *)
(* `x || []`), empty or filled, holding a department, a staff member and a *)
(* patient with theirs.                                                    *)
(***************************************************************************)
HospitalChildren ==
    {"departments", "checklist_templates", "exam_templates",
     "training_materials", "accreditation_materials", "news_banners",
     "admin_messages"}
DepartmentChildren == {"staff", "patients", "patient_education_materials"}
StaffChildren == {"assessments", "work_logs"}
PatientChildren == {"chat_history"}
Children ==
    HospitalChildren \cup DepartmentChildren \cup StaffChildren
        \cup PatientChildren

\* the fields of a row: its columns and the children in `present`
RowOf(columns, children, present, value(_)) ==
    [f \in columns \cup (children \cap present) |-> value(f)]

FetchedPatient(present, filled) ==
    RowOf({"id", "department_id", "national_id", "password"}, PatientChildren,
          present,
          LAMBDA f : CASE f = "national_id" -> "123"
                       [] f = "password" -> "pw"
                       [] f = "chat_history" ->
                             IF filled
                             THEN << [id |-> -1, sender |-> "patient",
                                      file |-> NoId] >>
                             ELSE <<>>
                       [] OTHER -> -1)
FetchedStaff(present, filled) ==
    RowOf({"id", "department_id", "national_id", "password"}, StaffChildren,
          present,
          LAMBDA f : CASE f = "national_id" -> "123"
                       [] f = "password" -> "pw"
                       [] f \in StaffChildren ->
                             IF filled THEN << [id |-> -1] >> ELSE <<>>
                       [] OTHER -> -1)
FetchedMaterial ==
    [id |-> -1, hospital_id |-> -1, department_id |-> -1,
     material_type |-> "patient_education", month |-> "month1",
     description |-> "text", file_path |-> -1]
FetchedDepartment(present, filled) ==
    RowOf({"id", "hospital_id", "manager_national_id", "manager_password"},
          DepartmentChildren, present,
          LAMBDA f : CASE f = "manager_national_id" -> "123"
                       [] f = "manager_password" -> "pw"
                       [] f = "staff" ->
                             IF filled THEN << FetchedStaff(present, filled) >>
                             ELSE <<>>
                       [] f = "patients" ->
                             IF filled
                             THEN << FetchedPatient(present, filled) >>
                             ELSE <<>>
                       [] f = "patient_education_materials" ->
                             IF filled
                             THEN << MaterialColumns(FetchedMaterial) >>
                             ELSE <<>>
                       [] OTHER -> -1)
FetchedHospital(present, filled) ==
    RowOf({"id", "name", "supervisor_national_id", "supervisor_password"},
          HospitalChildren, present,
          LAMBDA f : CASE f = "supervisor_national_id" -> "123"
                       [] f = "name" -> "hospital"
                       [] f = "supervisor_password" -> "pw"
                       [] f = "departments" ->
                             IF filled
                             THEN << FetchedDepartment(present, filled) >>
                             ELSE <<>>
                       [] f = "training_materials" ->
                             IF filled THEN << FetchedMaterial >> ELSE <<>>
                       [] f = "accreditation_materials" ->
                             IF filled
                             THEN << MaterialColumns(FetchedMaterial) >>
                             ELSE <<>>
                       [] f = "news_banners" ->
                             IF filled
                             THEN << [id |-> -1, hospital_id |-> -1,
                                      description |-> "text",
                                      image_path |-> -2] >>
                             ELSE <<>>
                       [] f = "admin_messages" ->
                             IF filled
                             THEN << [id |-> -1, sender |-> "admin",
                                      file |-> NoId] >>
                             ELSE <<>>
                       [] f \in {"checklist_templates", "exam_templates"} ->
                             IF filled THEN << [id |-> -1] >> ELSE <<>>
                       [] OTHER -> -1)
FetchedBodies ==
    { << FetchedHospital(present, filled) >> :
        present \in SUBSET Children, filled \in BOOLEAN }

\* the state after the first query was answered with a body
InitNormalize ==
    /\ hospitals = <<>>
    /\ isDataLoaded = FALSE
    /\ appScreen = "Welcome"
    /\ currentView = "DepartmentList"
    /\ selectedHospitalId = NoId
    /\ selectedDepartmentId = NoId
    /\ selectedStaffId = NoId
    /\ isLoginModalOpen = FALSE
    /\ loginError = Null
    /\ loggedInUser = NoUser
    /\ initializationError = Null
    /\ supabase = createClient(ConfiguredEnv)
    /\ db = EmptyDb
    /\ blobs = {}
    /\ clock = 0
    /\ fetches \in { << [stage |-> "served", data |-> body] >> :
                       body \in FetchedBodies }
    /\ tasks = <<>>
    /\ downloads = <<>>
    /\ CarouselBeforeMount
    /\ ev = Idle
NextNormalize == \E i \in 1..Len(fetches) : FetchResolve(i)
SpecNormalize == InitNormalize /\ [][NextNormalize]_vars

(***************************************************************************)
(* Fetches of a store whose training_materials table holds the rows        *)
(* handleAddMaterial writes: monthly materials of a month, accreditation   *)
(* materials, and patient education materials of a department.             *)
(***************************************************************************)
FetchMonths == { "month1", "month2" }
MaterialKinds ==
    { [department_id |-> NoId, material_type |-> "monthly_staff",
       month |-> m] : m \in FetchMonths }
    \cup { [department_id |-> NoId, material_type |-> "accreditation",
            month |-> ""] }
    \cup { [department_id |-> SeedDb.departments[d].id,
            material_type |-> "patient_education", month |-> ""] :
           d \in 1..Len(SeedDb.departments) }

RemoteInsertMaterial ==
    /\ Len(fetches) = 1
    /\ fetches[1].stage = "sent"
    /\ Len(db.training_materials) < MaxMaterials
    /\ \E kind \in MaterialKinds, h \in 1..Len(db.hospitals) :
          db' = Insert(db, "training_materials",
                       [id |-> Len(db.training_materials) + 1,
                        hospital_id |-> db.hospitals[h].id,
                        department_id |-> kind.department_id,
                        material_type |-> kind.material_type,
                        month |-> kind.month,
                        description |-> "text",
                        file_path |-> Len(db.training_materials) + 1])
    /\ ev' = Idle
    /\ UNCHANGED <<hospitals, isDataLoaded, navVars, modalVars,
                   initializationError, supabase, downloads, carouselVars,
                   blobs, clock,
                   fetches, tasks>>

InitFetch ==
    /\ hospitals = <<>>
    /\ isDataLoaded = FALSE
    /\ appScreen = "Welcome"
    /\ currentView = "DepartmentList"
    /\ selectedHospitalId = NoId
    /\ selectedDepartmentId = NoId
    /\ selectedStaffId = NoId
    /\ isLoginModalOpen = FALSE
    /\ loginError = Null
    /\ loggedInUser = NoUser
    /\ initializationError = Null
    /\ supabase = createClient(ConfiguredEnv)
    /\ db = [SeedDb EXCEPT !.training_materials = <<>>]
    /\ blobs = {}
    /\ clock = 0
    /\ fetches = <<[stage |-> "sent"]>>
    /\ tasks = <<>>
    /\ downloads = <<>>
    /\ CarouselBeforeMount
    /\ ev = Idle
NextFetch ==
    \/ RemoteInsertMaterial
    \/ \E i \in 1..Len(fetches), error \in BOOLEAN : FetchServe(i, error)
    \/ \E i \in 1..Len(fetches) : FetchResolve(i)
SpecFetch == InitFetch /\ [][NextFetch]_vars

(***************************************************************************)
(* The local backup: handleLoadData reads a file the user picks, and the   *)
(* reader's onload callback parses it, validates it and asks the user.     *)
(***************************************************************************)
\* a hospital of a backup written by handleSaveData when the supervisor's
\* password was another one
BackupHospital ==
    [Transform(Select(SeedDb))[1] EXCEPT !.supervisorPassword = "wrong"]
\* the documents a picked file can hold: text that is not JSON, a JSON
\* object (a backup wrapped in one: value is its member), or a JSON array
BackupFiles ==
    { [json |-> "malformed"],
      [json |-> "object", value |-> <<BackupHospital>>],
      [json |-> "array", value |-> <<>>],
      [json |-> "array", value |-> <<BackupHospital>>],
      [json |-> "array",
       value |-> <<BackupHospital, [id |-> -2, departments |-> <<>>]>>],
      [json |-> "array", value |-> <<[BackupHospital EXCEPT !.name = ""]>>],
      [json |-> "array", value |-> <<[BackupHospital EXCEPT !.id = NoId]>>] }
\* JSON.parse: throws on text that is not JSON
Parses(file) == file.json # "malformed"
\* h.id && h.name
Truthy(r, f) == f \in DOMAIN r /\ r[f] # (IF f = "id" THEN NoId ELSE "")
ValidBackup(data) ==
    /\ data.json = "array"
    /\ \A k \in 1..Len(data.value) :
          Truthy(data.value[k], "id") /\ Truthy(data.value[k], "name")

\* mutant: the tree is written as the value of an object
StringifyWrapped(tree) == [json |-> "object", value |-> tree]
\* JSON.stringify(hospitals, null, 2): the document the text holds
Stringify(tree) == [json |-> "array", value |-> tree]
\* the download: `tree` records what the file was written from
handleSaveData ==
    /\ HeaderShown
    /\ loggedInUser.role # "None"
    /\ IF hospitals = <<>>
       THEN /\ downloads' = downloads
            /\ ev' = [op |-> "handleSaveData", ok |-> FALSE,
                      alert |-> "No data to save."]
       ELSE /\ Len(downloads) < MaxDownloads
            /\ downloads' = Append(downloads, [file |-> Stringify(hospitals),
                                               tree |-> hospitals])
            /\ ev' = [op |-> "handleSaveData", ok |-> TRUE,
                      alert |-> "saved"]
    /\ NoResync
    /\ UNCHANGED <<hospitals, db, blobs, clock, tasks, navVars, modalVars,
                   initializationError, supabase, carouselVars>>

LoadEvent(file, confirm, alert) ==
    [op |-> "handleLoadData", await |-> "read", ok |-> alert = "loaded",
     alert |-> alert, file |-> file, confirm |-> confirm]
\* the click and the file chooser; nothing happens when no file is picked
handleLoadData ==
    /\ HeaderShown
    /\ loggedInUser.role # "None"
    /\ clock < MaxClock
    /\ clock' = clock + 1
    /\ \/ tasks' = tasks
       \/ \E file \in BackupFiles
                       \cup { downloads[k].file : k \in 1..Len(downloads) } :
             tasks' = Append(tasks, [op |-> "handleLoadData",
                                     await |-> "read", file |-> file])
    /\ ev' = [op |-> "handleLoadData", await |-> "call"]
    /\ NoResync
    /\ UNCHANGED <<hospitals, db, blobs, uiVars>>
\* mutant: the backup is loaded without asking
handleLoadData_readNoConfirm(i, confirm) ==
    /\ Suspended(i, "handleLoadData", "read")
    /\ tasks' = Remove(tasks, i)
    /\ LET file == tasks[i].file
       IN  IF Parses(file) /\ ValidBackup(file)
           THEN /\ hospitals' = file.value
                /\ ev' = LoadEvent(file, confirm, "loaded")
           ELSE /\ hospitals' = hospitals
                /\ ev' = LoadEvent(file, confirm, "failed to load or parse")
    /\ NoResync
    /\ UNCHANGED <<db, blobs, clock, uiVars>>
\* reader.onload
handleLoadData_read(i, confirm) ==
    /\ Suspended(i, "handleLoadData", "read")
    /\ tasks' = Remove(tasks, i)
    /\ LET file == tasks[i].file
       IN  IF Parses(file) /\ ValidBackup(file)
           THEN IF confirm
                THEN /\ hospitals' = file.value
                     /\ ev' = LoadEvent(file, confirm, "loaded")
                ELSE /\ hospitals' = hospitals
                     /\ ev' = LoadEvent(file, confirm, Null)
           ELSE /\ hospitals' = hospitals
                /\ ev' = LoadEvent(file, confirm, "failed to load or parse")
    /\ NoResync
    /\ UNCHANGED <<db, blobs, clock, uiVars>>

NextBackup ==
    \/ \E i \in 1..Len(fetches), error \in BOOLEAN : FetchServe(i, error)
    \/ \E i \in 1..Len(fetches) : FetchResolve(i)
    \/ OpenLoginModal
    \/ CloseLoginModal
    \/ \E c \in SubmittedCredentials : handleLogin(c[1], c[2])
    \/ handleLogout
    \/ handleUpdateHospital
    \/ handleLoadData
    \/ \E i \in 1..Len(tasks), confirm \in BOOLEAN : handleLoadData_read(i, confirm)
SpecBackup == InitMut /\ [][NextBackup]_vars

(***************************************************************************)
(* Saving a backup and loading it again, over the trees fetched from       *)
(* stores with no hospital, one, two, or one whose name is empty           *)
(* (handleAddHospital inserts the name it is given).                       *)
(***************************************************************************)
RoundTripHospitals ==
    { <<>>,
      SeedDb.hospitals,
      << [SeedDb.hospitals[1] EXCEPT !.name = ""] >>,
      SeedDb.hospitals \o << [SeedDb.hospitals[1] EXCEPT !.id = -2] >> }
InitRoundTrip ==
    /\ hospitals = <<>>
    /\ isDataLoaded = FALSE
    /\ appScreen = "Welcome"
    /\ currentView = "DepartmentList"
    /\ selectedHospitalId = NoId
    /\ selectedDepartmentId = NoId
    /\ selectedStaffId = NoId
    /\ isLoginModalOpen = FALSE
    /\ loginError = Null
    /\ loggedInUser = NoUser
    /\ initializationError = Null
    /\ supabase = createClient(ConfiguredEnv)
    /\ \E hs \in RoundTripHospitals : db = [SeedDb EXCEPT !.hospitals = hs]
    /\ blobs = SeedBlobs
    /\ clock = 0
    /\ fetches = <<[stage |-> "sent"]>>
    /\ tasks = <<>>
    /\ downloads = <<>>
    /\ CarouselBeforeMount
    /\ ev = Idle
NextRoundTrip ==
    \/ \E i \in 1..Len(fetches), error \in BOOLEAN : FetchServe(i, error)
    \/ \E i \in 1..Len(fetches) : FetchResolve(i)
    \/ OpenLoginModal
    \/ handleLogin(AdminNationalId, AdminPassword)
    \/ handleSaveData
    \/ handleLoadData
    \/ \E i \in 1..Len(tasks), confirm \in BOOLEAN : handleLoadData_read(i, confirm)
SpecRoundTrip == InitRoundTrip /\ [][NextRoundTrip]_vars

(***************************************************************************)
(* NewsCarousel: one mounted carousel, its parent changing the banners     *)
(* prop. The image urls are left out: getPublicUrl is synchronous and      *)
(* nothing reads images before banners[currentIndex].                      *)
(***************************************************************************)
BannerIds == 1..MaxBanners
BannerLists ==
    UNION { { bs \in [1..n -> BannerIds] :
                 \A i, j \in 1..n : i # j => bs[i] # bs[j] } : n \in 0..MaxBanners }
pageVars == <<hospitals, isDataLoaded, navVars, modalVars, initializationError,
              supabase, downloads, remoteVars, fetches, tasks>>

\* what the component returns: banners[currentIndex] is undefined past the
\* end of the list and reading its id throws
Rendered ==
    IF isLoading THEN "loading"
    ELSE IF Len(banners) = 0 THEN "null"
    ELSE IF currentIndex \in 0..(Len(banners) - 1) THEN "slide"
    ELSE "TypeError"
\* a render that throws unmounts the component: no handler, timer or effect
\* of it runs afterwards
Mounted == Rendered # "TypeError"
ControlsShown == Rendered = "slide" /\ Len(banners) > 1

previousIndex(index, length) ==
    IF index = 0 THEN length - 1 ELSE index - 1
nextIndex(index, length) ==
    IF index = length - 1 THEN 0 ELSE index + 1

setCurrentIndex(op, newIndex) ==
    /\ currentIndex' = newIndex
    /\ ev' = [op |-> op, from |-> currentIndex]
    /\ UNCHANGED <<banners, isLoading, pageVars>>

goToPrevious ==
    /\ ControlsShown
    /\ setCurrentIndex("goToPrevious", previousIndex(currentIndex, Len(banners)))
goToNext ==
    /\ ControlsShown
    /\ setCurrentIndex("goToNext", nextIndex(currentIndex, Len(banners)))
goToSlide(slideIndex) ==
    /\ ControlsShown
    /\ slideIndex \in 0..(Len(banners) - 1)
    /\ setCurrentIndex("goToSlide", slideIndex)
\* setTimeout(goToNext, 7000): the effect re-arms it with the callback of the
\* last render, whatever that render returned
TimerFires ==
    /\ Mounted
    /\ Len(banners) > 1
    /\ currentIndex < MaxIndex
    /\ setCurrentIndex("timer", nextIndex(currentIndex, Len(banners)))
\* the parent renders the carousel with another list; if that render
\* returns, the effect on banners runs: fetchImages sets isLoading, or the
\* empty list clears it
BannersChange(bs) ==
    /\ Mounted
    /\ bs # banners
    /\ banners' = bs
    /\ isLoading' =
         IF ~isLoading /\ Len(bs) > 0 /\ currentIndex >= Len(bs)
         THEN isLoading
         ELSE Len(bs) > 0
    /\ ev' = [op |-> "banners", from |-> currentIndex]
    /\ UNCHANGED <<currentIndex, pageVars>>
\* fetchImages after its await, or the effect of the mount with no banner
fetchImages ==
    /\ Mounted
    /\ isLoading
    /\ isLoading' = FALSE
    /\ ev' = [op |-> "fetchImages", from |-> currentIndex]
    /\ UNCHANGED <<banners, currentIndex, pageVars>>

InitCarousel ==
    /\ hospitals = <<>>
    /\ isDataLoaded = FALSE
    /\ appScreen = "Welcome"
    /\ currentView = "DepartmentList"
    /\ selectedHospitalId = NoId
    /\ selectedDepartmentId = NoId
    /\ selectedStaffId = NoId
    /\ isLoginModalOpen = FALSE
    /\ loginError = Null
    /\ loggedInUser = NoUser
    /\ initializationError = Null
    /\ supabase = createClient(ConfiguredEnv)
    /\ db = SeedDb
    /\ blobs = SeedBlobs
    /\ clock = 0
    /\ fetches = <<[stage |-> "sent"]>>
    /\ tasks = <<>>
    /\ downloads = <<>>
    /\ banners \in BannerLists
    /\ currentIndex = 0
    /\ isLoading = TRUE
    /\ ev = Idle
NextCarousel ==
    \/ goToPrevious
    \/ goToNext
    \/ \E slideIndex \in 0..(MaxBanners - 1) : goToSlide(slideIndex)
    \/ TimerFires
    \/ \E bs \in BannerLists : BannersChange(bs)
    \/ fetchImages
SpecCarousel == InitCarousel /\ [][NextCarousel]_vars

(***************************************************************************)
(* The application under every configuration of the two connection values. *)
(***************************************************************************)
InitConfig ==
    /\ hospitals = <<>>
    /\ isDataLoaded = FALSE
    /\ appScreen = "Welcome"
    /\ currentView = "DepartmentList"
    /\ selectedHospitalId = NoId
    /\ selectedDepartmentId = NoId
    /\ selectedStaffId = NoId
    /\ isLoginModalOpen = FALSE
    /\ loginError = Null
    /\ loggedInUser = NoUser
    /\ initializationError = Null
    /\ \E env \in Envs : supabase = createClient(env)
    /\ db = SeedDb
    /\ blobs = SeedBlobs
    /\ clock = 0
    /\ fetches = <<[stage |-> "sent"]>>
    /\ tasks = <<>>
    /\ downloads = <<>>
    /\ CarouselBeforeMount
    /\ ev = Idle
NextConfig ==
    \/ \E i \in 1..Len(fetches), error \in BOOLEAN : FetchServe(i, error)
    \/ \E i \in 1..Len(fetches) : FetchResolve(i)
    \/ OpenLoginModal
    \/ CloseLoginModal
    \/ \E c \in SubmittedCredentials : handleLogin(c[1], c[2])
    \/ handleLogout
    \/ handleGoToWelcome
    \/ handleSelectHospital
    \/ handleBack
\* a step is taken whenever one can be: a pending fetch resolves, and a user
\* who can act does
SpecConfig == InitConfig /\ [][NextConfig]_vars /\ WF_vars(NextConfig)

(***************************************************************************)
(* The principals of a tree in the order the resolver is documented to     *)
(* visit them: per hospital its supervisor, then per department its        *)
(* manager, its staff and its patients.                                    *)
(***************************************************************************)

PrincipalsOfDepartment(h, d) ==
    <<[user |-> [role |-> "Manager", hospitalId |-> h.id,
                 departmentId |-> d.id, staffId |-> NoId, patientId |-> NoId],
       nationalId |-> d.managerNationalId, password |-> d.managerPassword]>>
    \o Map(d.staff,
           LAMBDA m : [user |-> [role |-> "Staff", hospitalId |-> h.id,
                                 departmentId |-> d.id, staffId |-> m.id,
                                 patientId |-> NoId],
                       nationalId |-> m.nationalId, password |-> m.password])
    \o Map(OrEmpty(d, "patients"),
           LAMBDA m : [user |-> [role |-> "Patient", hospitalId |-> h.id,
                                 departmentId |-> d.id, staffId |-> NoId,
                                 patientId |-> m.id],
                       nationalId |-> m.nationalId, password |-> m.password])
PrincipalsOfHospital(h) ==
    <<[user |-> [role |-> "Supervisor", hospitalId |-> h.id,
                 departmentId |-> NoId, staffId |-> NoId, patientId |-> NoId],
       nationalId |-> h.supervisorNationalId,
       password |-> h.supervisorPassword]>>
    \o Flatten(Map(h.departments, LAMBDA d : PrincipalsOfDepartment(h, d)))
Traversal(tree) == Flatten(Map(tree, PrincipalsOfHospital))

Matches(m, nationalId, password) ==
    m.nationalId = nationalId /\ m.password = password
MatchingPositions(tree, nationalId, password) ==
    { i \in 1..Len(Traversal(tree)) :
        Matches(Traversal(tree)[i], nationalId, password) }
IsAdminPair(nationalId, password) ==
    nationalId = AdminNationalId /\ password = AdminPassword

\* the last step was handleLogin with a non-empty pair
LoggedInWith ==
    ev.op = "handleLogin" /\ ev.nationalId # "" /\ ev.password # ""
\* the position in the tree of the hospital / department of the logged-in user
UserHospital == findHospital(hospitals, loggedInUser.hospitalId)
UserDepartment ==
    findDepartment(hospitals[UserHospital], loggedInUser.departmentId)

(***************************************************************************)
(* C1: handleLogin resolves a non-empty pair in one fixed order and stops  *)
(* at the first match: the admin pair first, then the principals of the    *)
(* tree in traversal order; the user logged in is the earliest principal   *)
(* whose credentials equal the submitted pair (nobody when none does).     *)
(***************************************************************************)
C1_FirstMatchInTraversalWins ==
    LoggedInWith =>
        LET t == Traversal(hospitals)
            i == FirstIndex(t, LAMBDA m : Matches(m, ev.nationalId, ev.password))
        IN  IF IsAdminPair(ev.nationalId, ev.password)
            THEN loggedInUser = [NoUser EXCEPT !.role = "Admin"]
            ELSE IF i = 0 THEN loggedInUser = NoUser
            ELSE loggedInUser = t[i].user
\* a staff member was logged in although a later principal has the same pair
C1_Witness ==
    /\ LoggedInWith
    /\ loggedInUser.role = "Staff"
    /\ Cardinality(MatchingPositions(hospitals, ev.nationalId, ev.password)) >= 2

(***************************************************************************)
(* C2 as stated: whenever a supervisor and a staff member anywhere in the  *)
(* tree share the submitted (non-admin) pair, the supervisor is logged in. *)
(***************************************************************************)
SharedBySupervisorAndStaff(tree, nationalId, password) ==
    LET t == Traversal(tree)
    IN  /\ \E i \in 1..Len(t) : /\ t[i].user.role = "Supervisor"
                                /\ Matches(t[i], nationalId, password)
        /\ \E i \in 1..Len(t) : /\ t[i].user.role = "Staff"
                                /\ Matches(t[i], nationalId, password)
C2_SupervisorAlwaysWins ==
    (/\ LoggedInWith
     /\ ~IsAdminPair(ev.nationalId, ev.password)
     /\ SharedBySupervisorAndStaff(hospitals, ev.nationalId, ev.password))
        => loggedInUser.role = "Supervisor"

(***************************************************************************)
(* C2 amended: the role tiers take precedence only inside the nesting. A   *)
(* manager, staff member or patient is logged in only if no supervisor of  *)
(* the same or an earlier hospital has the pair; a staff member or patient *)
(* only if no manager of the same or an earlier department of that         *)
(* hospital has it; a patient only if no staff member of the same          *)
(* department has it; and the admin pair always logs in the admin.         *)
(***************************************************************************)
C2_TiersWithinNesting ==
    LoggedInWith =>
        LET n == ev.nationalId
            p == ev.password
            role == loggedInUser.role
        IN  /\ IsAdminPair(n, p) => role = "Admin"
            /\ role \in {"Manager", "Staff", "Patient"} =>
                  \A h \in 1..UserHospital :
                      ~(hospitals[h].supervisorNationalId = n
                        /\ hospitals[h].supervisorPassword = p)
            /\ role \in {"Staff", "Patient"} =>
                  \A d \in 1..UserDepartment :
                      LET department == hospitals[UserHospital].departments[d]
                      IN  ~(department.managerNationalId = n
                            /\ department.managerPassword = p)
            /\ role = "Patient" =>
                  LET department ==
                          hospitals[UserHospital].departments[UserDepartment]
                  IN  \A s \in 1..Len(department.staff) :
                          ~(department.staff[s].nationalId = n
                            /\ department.staff[s].password = p)
            /\ (role = "None" /\ ~IsAdminPair(n, p)) =>
                  MatchingPositions(hospitals, n, p) = {}
\* the supervisor was logged in although a staff member shares the pair
C2_Witness ==
    /\ LoggedInWith
    /\ ~IsAdminPair(ev.nationalId, ev.password)
    /\ SharedBySupervisorAndStaff(hospitals, ev.nationalId, ev.password)
    /\ loggedInUser.role = "Supervisor"

(***************************************************************************)
(* C3 as stated: every submitted pair that matches no principal produces   *)
(* the invalid-credentials message.                                        *)
(***************************************************************************)
MatchesNobody(tree, nationalId, password) ==
    /\ ~IsAdminPair(nationalId, password)
    /\ MatchingPositions(tree, nationalId, password) = {}
C3_AlwaysInvalidSignal ==
    (ev.op = "handleLogin" /\ MatchesNobody(hospitals, ev.nationalId, ev.password))
        => loginError = InvalidMessage

(***************************************************************************)
(* C3 amended: a non-empty pair that matches no principal produces the     *)
(* invalid-credentials message whatever the tree; a pair with an empty     *)
(* identifier or secret produces the required-fields message instead. In   *)
(* both cases nobody is logged in and screen, view and selected ids keep   *)
(* their values.                                                           *)
(***************************************************************************)
C3_NoMatchSignal ==
    [][(ev'.op = "handleLogin"
        /\ MatchesNobody(hospitals, ev'.nationalId, ev'.password))
          => /\ loginError' = IF ev'.nationalId = "" \/ ev'.password = ""
                              THEN RequiredMessage ELSE InvalidMessage
             /\ loggedInUser' = loggedInUser
             /\ loggedInUser' = NoUser
             /\ UNCHANGED <<appScreen, currentView, selectedHospitalId,
                            selectedDepartmentId, selectedStaffId, hospitals>>]_vars
\* the identifier is a principal's, the secret is not: invalid credentials
C3_Witness ==
    /\ ev.op = "handleLogin"
    /\ ev.password = "wrong"
    /\ loginError = InvalidMessage
    /\ \E i \in 1..Len(hospitals) :
          hospitals[i].supervisorNationalId = ev.nationalId

(***************************************************************************)
(* C4: a successful handleLogin leaves the navigation state at the matched *)
(* principal's home with exactly that principal's scope.                   *)
(***************************************************************************)
C4_LoginHome ==
    (LoggedInWith /\ loggedInUser.role # "None") =>
        LET u == loggedInUser
        IN  /\ ~isLoginModalOpen
            /\ loginError = Null
            /\ u.role = "Admin" =>
                  /\ appScreen = "HospitalList"
                  /\ u.hospitalId = NoId /\ u.departmentId = NoId
                  /\ u.staffId = NoId /\ u.patientId = NoId
                  /\ selectedHospitalId = NoId
                  /\ selectedDepartmentId = NoId
                  /\ selectedStaffId = NoId
            /\ u.role = "Supervisor" =>
                  /\ appScreen = "MainApp"
                  /\ currentView = "DepartmentList"
                  /\ u.hospitalId # NoId
                  /\ selectedHospitalId = u.hospitalId
                  /\ selectedDepartmentId = NoId
                  /\ selectedStaffId = NoId
            /\ u.role = "Manager" =>
                  /\ appScreen = "MainApp"
                  /\ currentView = "DepartmentView"
                  /\ u.hospitalId # NoId /\ u.departmentId # NoId
                  /\ selectedHospitalId = u.hospitalId
                  /\ selectedDepartmentId = u.departmentId
                  /\ selectedStaffId = NoId
            /\ u.role = "Staff" =>
                  /\ appScreen = "MainApp"
                  /\ currentView = "StaffMemberView"
                  /\ u.hospitalId # NoId /\ u.departmentId # NoId
                  /\ u.staffId # NoId
                  /\ selectedHospitalId = u.hospitalId
                  /\ selectedDepartmentId = u.departmentId
                  /\ selectedStaffId = u.staffId
            /\ u.role = "Patient" =>
                  /\ appScreen = "MainApp"
                  /\ currentView = "PatientPortal"
                  /\ u.hospitalId # NoId /\ u.departmentId # NoId
                  /\ u.patientId # NoId
                  /\ selectedHospitalId = NoId
                  /\ selectedDepartmentId = NoId
                  /\ selectedStaffId = NoId
\* a staff member of the second department of a hospital was logged in
C4_Witness ==
    /\ LoggedInWith
    /\ loggedInUser.role = "Staff"
    /\ selectedStaffId = loggedInUser.staffId
    /\ UserDepartment = 2

(***************************************************************************)
(* Claims about the mutation handlers. `ev` is the event of the last step: *)
(* the handler, the request whose answer it continued from, whether the    *)
(* request succeeded, and the alert the step raised.                       *)
(***************************************************************************)
LocalOnlyHandlers == {"handleUpdateHospital", "handleUpdateDepartment"}
CreateHandlers ==
    {"handleAddHospital", "handleAddDepartment", "handleAddMaterial",
     "handleAddNewsBanner"}
MutationHandlers ==
    CreateHandlers \cup LocalOnlyHandlers \cup
    {"handleDeleteHospital", "handleDeleteDepartment", "handleResetHospital",
     "handleDeleteMaterial", "handleUpdateMaterialDescription",
     "handleDeleteNewsBanner", "handleUpdateNewsBanner",
     "handleSendChatMessage"}
RowWrites == {"insert", "update", "delete"}
Requests == RowWrites \cup {"upload", "blobDelete"}

\* this step called fetchData
Resynced ==
    /\ fetches' = Append(fetches, [stage |-> "sent"])
    /\ isDataLoaded' = FALSE
\* this step ended a handler
HandlerEnded == Len(tasks') = Len(tasks) - 1
\* this step is the continuation of a handler of `ops` from a row write that
\* succeeded
WriteSucceeded(ops) ==
    /\ ev'.op \in ops
    /\ ev'.await \in RowWrites
    /\ ev'.ok
ResyncsAfterWrite(ops) ==
    WriteSucceeded(ops) =>
        /\ Resynced
        /\ HandlerEnded
        /\ hospitals' = hospitals

C6_FailureDistinctFromEmptyLoad ==
    [][ev'.op = "fetchData" =>
          /\ isDataLoaded'
          /\ IF ev'.ok
             THEN ev'.rows = 0 => initializationError' = Null
             ELSE /\ initializationError' # Null
                  /\ hospitals' = hospitals]_vars

(***************************************************************************)
(* C7 as stated: when the storage deletion of a delete-material action     *)
(* fails, the handler goes on to issue the deletion of the row.            *)
(***************************************************************************)
C7_StorageFailureNonFatal ==
    [][(ev'.op = "handleDeleteMaterial" /\ ev'.await = "blobDelete"
        /\ ~ev'.ok)
          => /\ Len(tasks') = Len(tasks)
             /\ \E i \in 1..Len(tasks') :
                   /\ tasks'[i].op = "handleDeleteMaterial"
                   /\ tasks'[i].await = "delete"
                   /\ tasks[i].await = "blobDelete"]_vars

(***************************************************************************)
(* C8 as stated: handleAddMaterial and handleAddNewsBanner do not end at a *)
(* failed insert with the blob they uploaded still in the storage.         *)
(***************************************************************************)
C8_CleanupAfterFailedInsert ==
    [][\A i \in 1..Len(tasks) :
          (/\ tasks[i].op \in {"handleAddMaterial", "handleAddNewsBanner"}
           /\ tasks[i].await = "insert"
           /\ tasks' = Remove(tasks, i)
           /\ ev'.op = tasks[i].op /\ ev'.await = "insert" /\ ~ev'.ok)
             => tasks[i].url \notin blobs']_vars

(***************************************************************************)
(* C9: in handleAddHospital, handleAddDepartment, handleAddMaterial and    *)
(* handleAddNewsBanner a failed upload or insert, and in                   *)
(* handleSendChatMessage a failed attachment upload, raises an alert and   *)
(* ends the handler: fetchData is not called and the store receives no     *)
(* insert or update.                                                       *)
(***************************************************************************)
C9_CreateFailureAborts ==
    [][(/\ \/ ev'.op \in CreateHandlers /\ ev'.await \in {"upload", "insert"}
           \/ ev'.op = "handleSendChatMessage" /\ ev'.await = "upload"
        /\ ~ev'.ok)
          => /\ ev'.alert # Null
             /\ HandlerEnded
             /\ UNCHANGED <<fetches, isDataLoaded, db, blobs, hospitals>>]_vars
\* the attachment of a chat message failed to upload while the tree is shown
C9_Witness ==
    /\ ev.op = "handleSendChatMessage"
    /\ ev.await = "upload"
    /\ ~ev.ok
    /\ ev.alert = "Error uploading attachment."
    /\ tasks = <<>>
    /\ fetches = <<>>
    /\ isDataLoaded
    /\ db = SeedDb

(***************************************************************************)
(* C10 as stated: every failed write, upload or delete of a mutation       *)
(* handler raises an alert and ends the handler before any later step,     *)
(* the fetchData included.                                                 *)
(***************************************************************************)
C10_EveryFailureAlertsAndAborts ==
    [][(ev'.op \in MutationHandlers /\ ev'.await \in Requests /\ ~ev'.ok)
          => /\ ev'.alert # Null
             /\ HandlerEnded
             /\ UNCHANGED <<fetches, isDataLoaded>>]_vars

(***************************************************************************)
(* Claims about the tree fetchData builds.                                 *)
(***************************************************************************)
\* `to` is present in the record `out`; it is the empty list when `from` is
\* absent or empty in the row `in`, and as long as the row's list otherwise
ListOf(in, from, out, to) ==
    /\ to \in DOMAIN out
    /\ IF from \in DOMAIN in
       THEN Len(out[to]) = Len(in[from])
       ELSE out[to] = <<>>
NormalizedStaff(row, s) ==
    /\ ListOf(row, "assessments", s, "assessments")
    /\ ListOf(row, "work_logs", s, "workLogs")
NormalizedPatient(row, p) == ListOf(row, "chat_history", p, "chatHistory")
NormalizedDepartment(row, d) ==
    /\ ListOf(row, "staff", d, "staff")
    /\ ListOf(row, "patients", d, "patients")
    /\ ListOf(row, "patient_education_materials", d,
              "patientEducationMaterials")
    /\ \A i \in 1..Len(d.staff) : NormalizedStaff(row.staff[i], d.staff[i])
    /\ \A i \in 1..Len(d.patients) :
          NormalizedPatient(row.patients[i], d.patients[i])
NormalizedHospital(row, h) ==
    /\ ListOf(row, "departments", h, "departments")
    /\ ListOf(row, "checklist_templates", h, "checklistTemplates")
    /\ ListOf(row, "exam_templates", h, "examTemplates")
    /\ "trainingMaterials" \in DOMAIN h
    /\ ("training_materials" \notin DOMAIN row
        \/ row.training_materials = <<>>) => h.trainingMaterials = <<>>
    /\ ListOf(row, "accreditation_materials", h, "accreditationMaterials")
    /\ ListOf(row, "news_banners", h, "newsBanners")
    /\ ListOf(row, "admin_messages", h, "adminMessages")
    /\ \A i \in 1..Len(h.departments) :
          NormalizedDepartment(row.departments[i], h.departments[i])
\* this step is the continuation of fetch i from a successful answer
Fetched(i) ==
    /\ fetches[i].stage = "served"
    /\ fetches' = Remove(fetches, i)
    /\ ev'.op = "fetchData"

(***************************************************************************)
(* C11: the tree a successful fetch builds has a list for every child      *)
(* collection of every hospital, department, staff member and patient,     *)
(* and the list is empty where the row's collection is absent or empty.    *)
(***************************************************************************)
C11_ListsAlwaysPresent ==
    [][\A i \in 1..Len(fetches) :
          Fetched(i) =>
             /\ Len(hospitals') = Len(fetches[i].data)
             /\ \A k \in 1..Len(hospitals') :
                   NormalizedHospital(fetches[i].data[k], hospitals'[k])]_vars
\* a patient row without chat_history under a hospital row without templates
C11_Witness ==
    /\ ev.op = "fetchData"
    /\ ev.ok
    /\ Len(hospitals) = 1
    /\ hospitals[1].checklistTemplates = <<>>
    /\ hospitals[1].adminMessages # <<>>
    /\ Len(hospitals[1].departments) = 1
    /\ Len(hospitals[1].departments[1].patients) = 1
    /\ hospitals[1].departments[1].patients[1].chatHistory = <<>>
    /\ Len(hospitals[1].departments[1].staff) = 1
    /\ hospitals[1].departments[1].staff[1].workLogs # <<>>

\* the positions <<bucket, place>> of the material `id` in the buckets
PlacesOf(buckets, id) ==
    { bp \in (1..Len(buckets)) \X (1..MaxMaterials + 1) :
        /\ bp[2] <= Len(buckets[bp[1]].materials)
        /\ buckets[bp[1]].materials[bp[2]].id = id }
RowIndex(rows, id) == FirstIndex(rows, LAMBDA r : r.id = id)
GroupedByMonth(rows, buckets) ==
    /\ \A j \in 1..Len(rows) :
          IF rows[j].month = ""
          THEN PlacesOf(buckets, rows[j].id) = {}
          ELSE /\ Cardinality(PlacesOf(buckets, rows[j].id)) = 1
               /\ \A bp \in PlacesOf(buckets, rows[j].id) :
                     buckets[bp[1]].month = rows[j].month
    /\ \A b, c \in 1..Len(buckets) :
          b # c => buckets[b].month # buckets[c].month
    /\ \A b \in 1..Len(buckets) :
          LET ms == buckets[b].materials
          IN  /\ ms # <<>>
              /\ \A p \in 1..Len(ms) : RowIndex(rows, ms[p].id) # 0
              /\ \A p, q \in 1..Len(ms) :
                    p < q => RowIndex(rows, ms[p].id) < RowIndex(rows, ms[q].id)

(***************************************************************************)
(* C12: every fetched training-material row with a month is in exactly one *)
(* bucket, the one of its month; there is one bucket per month; a bucket   *)
(* keeps the fetched order of its rows; a row without a month is in no     *)
(* bucket.                                                                 *)
(***************************************************************************)
C12_GroupedByMonth ==
    [][\A i \in 1..Len(fetches) :
          Fetched(i) =>
             \A k \in 1..Len(hospitals') :
                GroupedByMonth(fetches[i].data[k].training_materials,
                               hospitals'[k].trainingMaterials)]_vars
\* two months, the first with two materials around a material of the second,
\* and a material without a month
C12_Witness ==
    /\ ev.op = "fetchData"
    /\ ev.ok
    /\ Len(hospitals) = 1
    /\ Len(hospitals[1].trainingMaterials) = 2
    /\ Len(hospitals[1].trainingMaterials[1].materials) = 2
    /\ hospitals[1].trainingMaterials[1].materials[2].id = 4
    /\ hospitals[1].trainingMaterials[2].materials[1].id = 3
    /\ Len(hospitals[1].accreditationMaterials) = 4

\* the material_type of the fetched row `id` of a hospital
TypeOfRow(row, id) ==
    row.training_materials[RowIndex(row.training_materials, id)].material_type
OnlyOfType(row, materials, type) ==
    \A p \in 1..Len(materials) : TypeOfRow(row, materials[p].id) = type

(***************************************************************************)
(* C13 as stated: the buckets of a hospital hold only monthly_staff rows,  *)
(* its accreditationMaterials only accreditation rows, and the             *)
(* patientEducationMaterials of its departments only patient_education     *)
(* rows.                                                                   *)
(***************************************************************************)
C13_DisjointByType ==
    [][\A i \in 1..Len(fetches) :
          Fetched(i) =>
             \A k \in 1..Len(hospitals') :
                LET row == fetches[i].data[k]
                    h == hospitals'[k]
                IN  /\ OnlyOfType(row, MonthlyMaterials(h), "monthly_staff")
                    /\ OnlyOfType(row, h.accreditationMaterials,
                                  "accreditation")
                    /\ \A d \in 1..Len(h.departments) :
                          OnlyOfType(row,
                                     h.departments[d].patientEducationMaterials,
                                     "patient_education")]_vars

\* `after` is `before` with the fields of updatedData written, nothing else
Updated(before, after, updatedData) ==
    /\ DOMAIN after = DOMAIN before \cup DOMAIN updatedData
    /\ \A f \in DOMAIN updatedData : after[f] = updatedData[f]
    /\ \A f \in DOMAIN before \ DOMAIN updatedData : after[f] = before[f]
\* `after` is the list `before` with the records of the given id updated
UpdatedIn(before, after, id, updatedData) ==
    /\ Len(after) = Len(before)
    /\ \A k \in 1..Len(before) :
          IF before[k].id = id
          THEN Updated(before[k], after[k], updatedData)
          ELSE after[k] = before[k]
NoRequest == UNCHANGED <<db, blobs, tasks, fetches>>
DepartmentIds(hs) ==
    UNION { { hs[h].departments[d].id : d \in 1..Len(hs[h].departments) } :
            h \in 1..Len(hs) }
EditedValues ==
    { u.supervisorPassword : u \in UpdatedHospitalData }
    \cup { u.managerPassword : u \in UpdatedDepartmentData }
Edited(hs) ==
    \E h \in 1..Len(hs) :
       \/ hs[h].supervisorPassword \in EditedValues
       \/ \E d \in 1..Len(hs[h].departments) :
             hs[h].departments[d].managerPassword \in EditedValues

(***************************************************************************)
(* C14: handleUpdateHospital and handleUpdateDepartment send no request    *)
(* and leave the remote store alone; they write only the supplied fields   *)
(* of the hospital with the given id, or of the department with the given  *)
(* id inside the selected hospital; the tree of a later successful fetch   *)
(* carries none of the edited values.                                      *)
(***************************************************************************)
C14_LocalEditsOnly ==
    [][/\ ev'.op = "handleUpdateHospital" =>
             /\ NoRequest
             /\ \E h \in 1..Len(hospitals), u \in UpdatedHospitalData :
                   UpdatedIn(hospitals, hospitals', hospitals[h].id, u)
       /\ ev'.op = "handleUpdateDepartment" =>
             /\ NoRequest
             /\ Len(hospitals') = Len(hospitals)
             /\ \E id \in DepartmentIds(hospitals),
                   u \in UpdatedDepartmentData :
                   \A k \in 1..Len(hospitals) :
                      IF hospitals[k].id = selectedHospitalId
                      THEN /\ Updated(hospitals[k], hospitals'[k],
                                      [departments |->
                                          hospitals'[k].departments])
                           /\ UpdatedIn(hospitals[k].departments,
                                        hospitals'[k].departments, id, u)
                      ELSE hospitals'[k] = hospitals[k]
       /\ (ev'.op = "fetchData" /\ ev'.ok) => ~Edited(hospitals')]_vars
\* both edits made, none of them in the store, and no request in flight
C14_Witness ==
    /\ ev.op = "handleUpdateDepartment"
    /\ Len(hospitals) = 1
    /\ hospitals[1].supervisorPassword \in EditedValues
    /\ Len(hospitals[1].departments) = 1
    /\ hospitals[1].departments[1].managerPassword \in EditedValues
    /\ Len(db.hospitals) = 1
    /\ Len(db.departments) = 1
    /\ db.hospitals[1].supervisor_password \notin EditedValues
    /\ db.departments[1].manager_password \notin EditedValues
    /\ fetches = <<>>

\* the store never changes in SpecBackup: this is the tree every successful
\* fetchData of the session returns
FetchableTree == Transform(Select(db))
LoginAccepted ==
    /\ ev'.op = "handleLogin"
    /\ ev'.nationalId # ""
    /\ ev'.password # ""
    /\ loginError' = Null

(***************************************************************************)
(* C15 as stated: handleLogin sends no request and leaves the tree alone,  *)
(* and it accepts a non-admin pair only if the pair is that of a principal *)
(* of the tree the last successful fetchData returned.                     *)
(***************************************************************************)
C15_LoginReflectsLastFetch ==
    [][ev'.op = "handleLogin" =>
          /\ NoRequest
          /\ hospitals' = hospitals
          /\ (LoginAccepted /\ ~IsAdminPair(ev'.nationalId, ev'.password))
                => MatchingPositions(FetchableTree, ev'.nationalId,
                                     ev'.password) # {}]_vars

(***************************************************************************)
(* C15 amended: handleLogin sends no request and leaves the tree alone,    *)
(* and it accepts a non-admin pair only if the pair is that of a principal *)
(* of the tree in memory: the tree of the last successful fetchData as     *)
(* handleUpdateHospital or a loaded backup have changed it since.          *)
(***************************************************************************)
C15_LoginReflectsTree ==
    [][ev'.op = "handleLogin" =>
          /\ NoRequest
          /\ hospitals' = hospitals
          /\ (LoginAccepted /\ ~IsAdminPair(ev'.nationalId, ev'.password))
                => MatchingPositions(hospitals, ev'.nationalId,
                                     ev'.password) # {}]_vars
\* a supervisor logged in with a pair that no fetch of the store returns
C15_Witness ==
    /\ LoggedInWith
    /\ loginError = Null
    /\ loggedInUser.role = "Supervisor"
    /\ MatchingPositions(hospitals, ev.nationalId, ev.password) # {}
    /\ MatchingPositions(FetchableTree, ev.nationalId, ev.password) = {}

\* the document is a JSON array whose elements all have an id and a name
HasIdAndName(r) ==
    /\ "id" \in DOMAIN r
    /\ r.id # NoId
    /\ "name" \in DOMAIN r
    /\ r.name # ""
ArrayOfNamed(file) ==
    /\ file.json = "array"
    /\ \A k \in 1..Len(file.value) : HasIdAndName(file.value[k])

(***************************************************************************)
(* C20: handleLoadData replaces the tree by the content of the file when   *)
(* the file parses as JSON, is an array, every element has an id and a     *)
(* name, and the user confirms; otherwise the tree is unchanged; and it    *)
(* never sends a request or writes to the remote store.                    *)
(***************************************************************************)
C20_BackupReplacesTreeWhenValid ==
    [][ev'.op = "handleLoadData" =>
          /\ UNCHANGED <<db, blobs, fetches>>
          /\ IF ev'.await = "read"
             THEN /\ Len(tasks') < Len(tasks)
                  /\ IF ArrayOfNamed(ev'.file) /\ ev'.confirm
                     THEN hospitals' = ev'.file.value
                     ELSE hospitals' = hospitals
             ELSE hospitals' = hospitals]_vars
\* a confirmed backup replaced the fetched tree by another one
C20_Witness ==
    /\ ev.op = "handleLoadData"
    /\ ev.await = "read"
    /\ ev.confirm
    /\ ev.ok
    /\ hospitals = ev.file.value
    /\ hospitals # <<>>
    /\ isDataLoaded
    /\ hospitals # FetchableTree

Resolved(i) ==
    /\ i \in 1..Len(fetches)
    /\ fetches[i].stage # "sent"
    /\ fetches' = Remove(fetches, i)
    /\ ev'.op = "fetchData"

ListsInTree(tree, table, id) ==
    IF table = "hospitals"
    THEN { tree[h].adminMessages :
           h \in { k \in 1..Len(tree) : tree[k].id = id } }
    ELSE UNION { UNION { { tree[h].departments[d].patients[q].chatHistory :
                           q \in { k \in 1..Len(tree[h].departments[d].patients) :
                                   tree[h].departments[d].patients[k].id = id } } :
                         d \in 1..Len(tree[h].departments) } :
                 h \in 1..Len(tree) }
Front(s) == SubSeq(s, 1, Len(s) - 1)
SendStep(await) ==
    ev'.op = "handleSendChatMessage" /\ ev'.await = await /\ ev'.ok

(***************************************************************************)
(* C17: handleSendChatMessage writes the whole list, the list of the       *)
(* in-memory tree it was called in plus the new message, over whatever the *)
(* row holds when the update arrives. (The lost update this makes          *)
(* reachable is the state C17_Witness.)                                    *)
(***************************************************************************)
C17_SendOverwritesWithSnapshot ==
    [][/\ (SendStep("call") /\ Len(tasks') > Len(tasks)
              /\ tasks'[Len(tasks')].await = "update") =>
             LET w == tasks'[Len(tasks')].write
             IN  /\ w.value # <<>>
                 /\ ListsInTree(hospitals, w.table, w.id) = {Front(w.value)}
       /\ SendStep("update") =>
             \A i \in 1..Len(tasks) :
                (Suspended(i, "handleSendChatMessage", "update")
                    /\ tasks' = Remove(tasks, i)) =>
                   LET w == tasks[i].write
                   IN  \A r \in 1..Len(db'[w.table]) :
                          db'[w.table][r].id = w.id =>
                             db'[w.table][r][w.column] = w.value]_vars
\* a lost update: the second of two sends has just succeeded and the row
\* holds its message only, while the tree, fetched after the first send
\* succeeded, shows the message of the first
C17_Witness ==
    /\ ev.op = "handleSendChatMessage"
    /\ ev.await = "update"
    /\ ev.ok
    /\ Len(hospitals) = 1
    /\ Len(hospitals[1].adminMessages) = 1
    /\ Len(db.hospitals) = 1
    /\ Len(db.hospitals[1].admin_messages) = 1
    /\ hospitals[1].adminMessages[1].id # db.hospitals[1].admin_messages[1].id

Requesting == fetches # <<>> \/ tasks # <<>>

(***************************************************************************)
(* C18 as stated: a client is built only from the two configured values;   *)
(* when one is absent there is no client and the configuration-error       *)
(* screen is shown; no request is ever pending at a client built from      *)
(* placeholder values.                                                     *)
(***************************************************************************)
C18_NoRequestToPlaceholderClient ==
    /\ ~UsesPlaceholder(supabase)
    /\ supabase = NoClient => (ErrorScreen /\ ~Requesting)
    /\ Requesting => (supabase # NoClient /\ ~UsesPlaceholder(supabase))

FetchFailed == ev.op = "fetchData" /\ ~ev.ok

(***************************************************************************)
(* C19 as stated: after a failed fetchData the error stops being displayed *)
(* at some later point.                                                    *)
(***************************************************************************)
C19_FetchErrorDismissible == [](FetchFailed => <>~ErrorScreen)

\* what the code does instead: no step clears initializationError
InitializationErrorStays == [][ErrorScreen => ErrorScreen']_vars

\* the step loads, with the user's confirmation, the k-th file written
LoadsDownload(k) ==
    /\ ev'.op = "handleLoadData"
    /\ ev'.await = "read"
    /\ ev'.confirm
    /\ ev'.file = downloads[k].file
AllNamed(tree) == \A h \in 1..Len(tree) : HasIdAndName(tree[h])

ComponentOfView(v) ==
    IF v = "DepartmentList" THEN "DepartmentList" ELSE v
EnteredFrom(v) ==
    { p \in {"DepartmentList", "DepartmentView"} :
        \/ v \in ViewsFrom(ComponentOfView(p))
        \/ p = "DepartmentList" /\ v = "DepartmentView"      \* select department
        \/ p = "DepartmentView" /\ v = "StaffMemberView" }   \* select staff
SetOnEntering(v) ==
    CASE v = "DepartmentView" -> {"selectedDepartmentId"}
      [] v = "StaffMemberView" -> {"selectedStaffId"}
      [] OTHER -> {}
ClearedOrKept(id, before, after, cleared) ==
    after = IF id \in cleared THEN NoId ELSE before

(***************************************************************************)
(* C22 as stated: handleBack in a view entered by a forward navigation     *)
(* sets currentView to the view it was entered from and clears exactly the *)
(* selection ids that entering it had set.                                 *)
(***************************************************************************)
C22_BackReturnsToParent ==
    [][(ev'.op = "handleBack" /\ EnteredFrom(currentView) # {}) =>
          /\ currentView' \in EnteredFrom(currentView)
          /\ ClearedOrKept("selectedDepartmentId", selectedDepartmentId,
                           selectedDepartmentId', SetOnEntering(currentView))
          /\ ClearedOrKept("selectedStaffId", selectedStaffId,
                           selectedStaffId', SetOnEntering(currentView))
          /\ selectedHospitalId' = selectedHospitalId
          /\ appScreen' = appScreen]_vars

ScopedRoles == {"Supervisor", "Manager", "Staff", "Patient"}
\* the components whose handlers are the admin's: add, delete and select a
\* hospital, write to any hospital
AdminComponents == {"HospitalList", "AdminCommunicationView"}

(***************************************************************************)
(* C23 as stated: while a supervisor, manager, staff member or patient is  *)
(* logged in, the content rendered is never the hospital list (whose       *)
(* handlers are the admin-only ones), never shows a hospital other than    *)
(* the user's, and for a manager never a department other than the         *)
(* manager's.                                                              *)
(***************************************************************************)
C23_NonAdminLockedToScope ==
    loggedInUser.role \in ScopedRoles =>
        /\ Content.component \notin AdminComponents
        /\ Content.hospital # 0 =>
              hospitals[Content.hospital].id = loggedInUser.hospitalId
        /\ (loggedInUser.role = "Manager" /\ Content.department # 0) =>
              hospitals[Content.hospital].departments[Content.department].id
                 = loggedInUser.departmentId

LoggedOut == loggedInUser = NoUser
OnWelcome == appScreen = "Welcome"
SelectionCleared ==
    /\ selectedHospitalId = NoId
    /\ selectedDepartmentId = NoId
    /\ selectedStaffId = NoId
    /\ currentView = "DepartmentList"

(***************************************************************************)
(* C24: nobody is logged in exactly when the welcome screen is shown; a    *)
(* login that succeeds leaves the welcome screen; handleLogout and         *)
(* handleGoToWelcome clear the user, the selected ids and the view; and no *)
(* other step changes whether a user is logged in or whether the welcome   *)
(* screen is shown.                                                        *)
(***************************************************************************)
C24_LoggedOutIffWelcome ==
    [][/\ LoggedOut' <=> OnWelcome'
       /\ (ev'.op = "handleLogin" /\ ~LoggedOut') => ~OnWelcome'
       /\ ev'.op \in {"handleLogout", "handleGoToWelcome"} =>
             (LoggedOut' /\ OnWelcome' /\ SelectionCleared')
       /\ ev'.op \notin {"handleLogin", "handleLogout", "handleGoToWelcome"} =>
             /\ LoggedOut' = LoggedOut
             /\ OnWelcome' = OnWelcome]_vars
\* a user who went back to the hospital list has just logged out
C24_Witness ==
    /\ ev.op = "handleLogout"
    /\ LoggedOut
    /\ OnWelcome
    /\ hospitals # <<>>

ResetRequested(i) == Suspended(i, "handleResetHospital", "delete")
\* the tree with the departments of the hospital of that id emptied
DepartmentsEmptied(tree, hospitalId) ==
    [k \in 1..Len(tree) |->
        IF tree[k].id = hospitalId
        THEN [tree[k] EXCEPT !.departments = <<>>] ELSE tree[k]]

(***************************************************************************)
(* C25: handleResetHospital requests the deletion of the departments only  *)
(* of a selected hospital whose supervisor credentials equal the supplied  *)
(* ones; a call that returns false leaves the tree as it is; a call that   *)
(* returns true empties the departments of the hospital that was selected  *)
(* and changes no other hospital of the tree.                              *)
(***************************************************************************)
C25_ResetOnlySelectedHospital ==
    [][ev'.op = "handleResetHospital" =>
          /\ \A i \in 1..Len(tasks') :
                (/\ tasks'[i].op = "handleResetHospital"
                 /\ tasks'[i].await = "delete") =>
                   LET t == tasks'[i]
                       h == findHospital(t.hospitals, t.selectedHospitalId)
                   IN  /\ h # 0
                       /\ t.hospitals[h].id = t.hospitalId
                       /\ t.hospitals[h].supervisorNationalId = t.supervisorNationalId
                       /\ t.hospitals[h].supervisorPassword = t.supervisorPassword
          /\ ~ev'.ok => hospitals' = hospitals
          /\ (ev'.await = "delete" /\ ev'.ok) =>
                \E i \in 1..Len(tasks) :
                   /\ ResetRequested(i)
                   /\ tasks' = Remove(tasks, i)
                   /\ hospitals' =
                        DepartmentsEmptied(hospitals, tasks[i].selectedHospitalId)]_vars

(***************************************************************************)
(* C26: the loading flag is false in every state in which a request of     *)
(* fetchData is still in flight, overlapping requests included.            *)
(***************************************************************************)
C26_NotLoadedWhileFetching ==
    fetches # <<>> => ~isDataLoaded

(***************************************************************************)
(* C27: whenever the banner list of the carousel is non-empty the current  *)
(* index is an index of the list, whatever goToNext, goToPrevious,         *)
(* goToSlide, the timer and changes of the banners prop did before.        *)
(***************************************************************************)
C27_IndexWithinBanners ==
    Len(banners) > 0 => currentIndex \in 0..(Len(banners) - 1)

====
